---- MODULE Spec2Model ----
(***************************************************************************)
(* nakedclaw: the local daemon / CLI control plane.                        *)
(*                                                                         *)
(*   SpecServer     the daemon's Unix-socket server (daemon/server.ts):    *)
(*                  framing of the byte stream into lines, dispatch of     *)
(*                  each line, the router's replies.                       *)
(*   SpecLifecycle  start / stop / restart of the daemon process through   *)
(*                  the PID file (cli/daemon-ctl.ts, index.ts).            *)
(*   SpecStatus     the CLI's status query (cli/daemon-ctl.ts).            *)
(*   SpecSession    the session transcripts (session.ts).                  *)
(*   SpecScheduler  the job scheduler of two daemons on one jobs file.     *)
(*   SpecSchedule   the router's /schedule command and its time parser.    *)
(*   SpecPush       pushes to registered terminal sessions.                *)
(*   SpecStart      nakedclaw start after an unclean shutdown.             *)
(*   SpecShutdown   the daemon's SIGTERM / SIGINT hook.                    *)
(*   SpecRepl       the interactive client (cli/connect.ts).               *)
(*   SpecChannels   the allowlist of the channel adapters.                 *)
(*   SpecRouter     the router: chats, /reset, job firings and beats.      *)
(*   SpecSignals    concurrent starts and daemons that are signalled.      *)
(*   SpecHeartbeat  the heartbeat and the config watcher.                  *)
(*   SpecKeys       the session keys of the messages that arrive.          *)
(***************************************************************************)
EXTENDS Integers, Sequences, FiniteSets, TLC

VARIABLES
    \* ---- daemon server (daemon/server.ts, router.ts) ----
    daemonUp,     \* the daemon process is alive
    connOpen,     \* connOpen[c]: connection c is open
    stream,       \* stream[c]: every byte the client of c has written
    delivered,    \* delivered[c]: how many of them data events have handed over
    buffer,       \* buffer[c]: socket.data.buffer, the decoded partial line
    clients,      \* clients[c]: the sessionId registered for c, or None
    dispatched,   \* dispatched[c]: history, what each non-blank line was parsed to
    outbox,       \* outbox[c]: history, the responses written to c
    microtasks,   \* continuations that run before the next I/O event
    pending,      \* handler invocations suspended on an external call
    vocabulary,   \* the lines the clients of this run write
    transcript,   \* the user records appendMessage has written, in file order
    \* ---- process lifecycle (cli/daemon-ctl.ts, index.ts) ----
    pidFile,      \* the text of daemon.pid, or None when the file is absent
    sockFile,     \* the pid of the process that created daemon.sock, 0 when absent
    proc,         \* proc[p]: where daemon process p is in its life
    cli,          \* cli[k]: the CLI invocation k
    \* ---- nakedclaw status (cli/daemon-ctl.ts) ----
    stPc,         \* where showStatus() is
    settled,      \* queryDaemonStatus: settled
    timeout,      \* queryDaemonStatus: the 3000 ms timer
    qbuffer,      \* queryDaemonStatus: buffer
    resolved,     \* <<>> while the promise is pending, else <<its value>>
    qsock,        \* the status connection
    qwire,        \* the bytes the daemon wrote to the status connection
    qdelivered,   \* how many of them have reached the data handler
    printed,      \* history, what showStatus() printed
    \* ---- session transcripts (session.ts) ----
    maxTurns,     \* config.sessions.maxTurns
    sessionFile,  \* sessionFile[key]: the text of <key>.jsonl, or NoFile
    appended,     \* history, the messages appended to key since its last clear
    clears,       \* history, clearSession calls on key since its last append
    \* ---- scheduler (scheduler/scheduler.ts, index.ts) ----
    now,          \* the clock, in cron instants (minutes)
    jobsFile,     \* scheduled-jobs.json: whether it exists, and its jobs
    booted,       \* booted[d]: daemon process d is down, is up, or exited
                  \* from main().catch (fatal)
    jobStore,     \* jobStore[d]: jobStore of process d
    activeJobs,   \* activeJobs[d]: the armed Cron timers of process d
    nextUuid,     \* the ids crypto.randomUUID() has given out, as a count
    agentRuns,    \* the job callbacks that wait for runAgent
    invoked,      \* history, invoked[id]: job callbacks for id at instant now
    \* ---- pushes to terminal sessions (daemon/server.ts) ----
    pushes,       \* history, the sendToTerminalSession calls and their results
    \* ---- the daemon's heartbeat (scheduler/heartbeat.ts) ----
    heartbeat,    \* cronJob is set: the heartbeat timer is armed
    \* ---- the interactive client (cli/connect.ts) ----
    typed,        \* the lines the operator has typed, as a count
    screen,       \* the notices the client has printed
    waitingForResponse,
    written,      \* the requests the client has written to the socket
    owed,         \* owed[i]: responses the daemon has yet to write for request i
    inflight,     \* the daemon's messages on their way: the request each answers
    got,          \* history, got[i]: responses to request i the client has handled
    \* ---- the channel adapters (channels/*.ts) ----
    allowFrom,    \* allowFrom[ch]: config.channels[ch].allowFrom
    routed,       \* history, the messages passed to the message handler
    refused,      \* history, the messages the allowlist check turned away
    \* ---- the router and the agent (router.ts, agent.ts) ----
    arrivals,     \* the messages, job firings and beats received, as a count
    calls,        \* calls[id]: the handling of message id and where it stands
    \* ---- the heartbeat's beats (scheduler/heartbeat.ts) ----
    isRunning,    \* heartbeat.ts isRunning, the in-progress flag
    beating,      \* the beats between their start and the end of their finally
    beats,        \* history, the beats that came due and the config reloads
    \* ---- session keys (session.ts) ----
    keyed         \* history, the (channel, sender) pairs and their session keys

serverVars == <<daemonUp, connOpen, stream, delivered, buffer, clients,
                dispatched, outbox, microtasks, pending, vocabulary,
                transcript>>

lifeVars == <<pidFile, sockFile, proc, cli>>

statusVars == <<stPc, settled, timeout, qbuffer, resolved, qsock, qwire,
                qdelivered, printed>>

sessionVars == <<maxTurns, sessionFile, appended, clears>>

schedVars == <<now, jobsFile, booted, jobStore, activeJobs, nextUuid,
               agentRuns, invoked>>

pushVars == <<pushes>>

hookVars == <<heartbeat>>

replVars == <<typed, screen, waitingForResponse, written, owed, inflight, got>>

chanVars == <<allowFrom, routed, refused>>

routerVars == <<arrivals, calls>>

beatVars == <<isRunning, beating, beats>>

keyVars == <<keyed>>

vars == <<serverVars, lifeVars, statusVars, sessionVars, schedVars, pushVars,
          hookVars, replVars, chanVars, routerVars, beatVars, keyVars>>

None == "none"

(***************************************************************************)
(* Bounds.                                                                 *)
(***************************************************************************)
\* Lines the clients write in total, over all connections.
MaxLines == 2

Conns == {"c1", "c2"}

(***************************************************************************)
(* The wire.  A byte is one symbol.  C3 A9 is the two-byte UTF-8 encoding  *)
(* of U+00E9; every other byte is a one-byte character.  A JSON text is    *)
(* abbreviated: "{" tag fields "}" is an object whose type is given by the *)
(* tag (p ping, s status, c chat, m command, x a type the server does not  *)
(* know), "n" is the text null, "5" a number.  In a chat or command the    *)
(* first field byte is the sessionId and the rest is the text, one symbol  *)
(* per word: a plain word "a", U+00E9, and the words "/reset" (R),         *)
(* "/skills install <name>" (I) and "/frob", a slash word the router does  *)
(* not know (U).  "{" "S" sessions jobs "}" is a status_response with its   *)
(* two counts, one digit each.                                             *)
(***************************************************************************)
LF == "LF"
SP == "SP"
SidChars == {"1", "2"}
TextChars == {"a", "E9", "FFFD", "R", "I", "U"}
SlashWords == {"R", "I", "U"}
CountChars == {"0", "1"}

\* Buffer.from(raw).toString(): UTF-8 decoding of one chunk on its own.  A
\* lead byte without its continuation byte, and a continuation byte without
\* its lead byte, each decode to U+FFFD.
RECURSIVE toString(_)
toString(raw) ==
    IF raw = <<>> THEN <<>>
    ELSE IF Head(raw) = "C3"
         THEN IF Len(raw) >= 2 /\ raw[2] = "A9"
              THEN <<"E9">> \o toString(SubSeq(raw, 3, Len(raw)))
              ELSE <<"FFFD">> \o toString(Tail(raw))
         ELSE IF Head(raw) = "A9"
              THEN <<"FFFD">> \o toString(Tail(raw))
              ELSE <<Head(raw)>> \o toString(Tail(raw))

\* String.prototype.split("\n")
RECURSIVE split(_)
split(s) ==
    IF \A i \in 1..Len(s) : s[i] # LF THEN <<s>>
    ELSE LET i == CHOOSE i \in 1..Len(s) :
                      s[i] = LF /\ \A j \in 1..(i - 1) : s[j] # LF
         IN  <<SubSeq(s, 1, i - 1)>> \o split(SubSeq(s, i + 1, Len(s)))

\* String.prototype.trim()
WhiteSpace == {SP, LF}

RECURSIVE trimStart(_)
trimStart(s) ==
    IF s # <<>> /\ Head(s) \in WhiteSpace THEN trimStart(Tail(s)) ELSE s

RECURSIVE trimEnd(_)
trimEnd(s) ==
    IF s # <<>> /\ s[Len(s)] \in WhiteSpace
    THEN trimEnd(SubSeq(s, 1, Len(s) - 1)) ELSE s

trim(s) == trimEnd(trimStart(s))

Value(kind, sid, text) == [kind |-> kind, sessionId |-> sid, text |-> text]

\* JSON.parse of the abbreviated JSON texts; kind "SyntaxError" when it throws.
JSONparse(t) ==
    IF t = <<"n">> THEN Value("null", None, <<>>)
    ELSE IF t = <<"5">> THEN Value("number", None, <<>>)
    ELSE IF Len(t) >= 3 /\ t[1] = "{" /\ t[Len(t)] = "}"
              /\ \A i \in 2..(Len(t) - 1) : t[i] \notin {"{", "}"}
         THEN IF Len(t) = 3 /\ t[2] \in {"p", "s", "x"}
              THEN Value(CASE t[2] = "p" -> "ping"
                           [] t[2] = "s" -> "status"
                           [] OTHER -> "unknown", None, <<>>)
              ELSE IF Len(t) >= 4 /\ t[2] \in {"c", "m"} /\ t[3] \in SidChars
                        /\ \A i \in 4..(Len(t) - 1) : t[i] \in TextChars
                   THEN Value(IF t[2] = "c" THEN "chat" ELSE "command",
                              t[3], SubSeq(t, 4, Len(t) - 1))
                   ELSE IF Len(t) = 5 /\ t[2] = "S" /\ t[3] \in CountChars
                             /\ t[4] \in CountChars
                        THEN Value("status_response", None, <<t[3], t[4]>>)
                        ELSE Value("SyntaxError", None, <<>>)
         ELSE Value("SyntaxError", None, <<>>)

\* protocol.ts decode
decode(line) == JSONparse(trim(line))

\* protocol.ts encode, of a status_response with its counts
encode(sessions, jobs) == <<"{", "S", sessions, jobs, "}", LF>>

\* What a client may write as one line (the terminating newline is added on
\* sending).  A run draws its lines from one of three vocabularies: lines
\* that exercise the framing (a request, a request with a two-byte character,
\* a text that does not parse, a blank line); JSON values and objects that
\* are no chat or command (null, a number, an unknown type, status, the empty
\* line); and requests that go through the router.
FramingLines ==
    { <<"{", "p", "}">>,
      <<"{", "c", "2", "C3", "A9", "}">>,
      <<"{", "p">>,
      <<SP>> }

ObjectLines ==
    { <<"n">>,
      <<"5">>,
      <<"{", "x", "}">>,
      <<"{", "s", "}">>,
      <<>> }

RouterLines ==
    { <<"{", "c", "1", "a", "}">>,
      <<"{", "m", "1", "R", "}">>,
      <<"{", "m", "1", "I", "}">>,
      <<"{", "c", "1", "U", "}">> }

(***************************************************************************)
(* The daemon server.  sv is the server's state during one event: open,    *)
(* clients, out (outbox), disp (dispatched), micro (microtasks), pend      *)
(* (pending), log (transcript).  A handler invocation h is [conn, req,     *)
(* kind, sessionId, text, at]: req is the position of its request in       *)
(* dispatched[conn], at the place where it continues.                      *)
(***************************************************************************)
\* A message the server writes: of the protocol's types only chat_response
\* has a done flag, and the server always writes it as true.
Response(req, type, sid, text) ==
    [req |-> req, type |-> type, sessionId |-> sid, text |-> text,
     done |-> (type = "chat_response")]

Invocation(c, req, msg, at) ==
    [conn |-> c, req |-> req, kind |-> msg.kind, sessionId |-> msg.sessionId,
     text |-> msg.text, at |-> at]

\* socket.write: what is written to a socket that has closed is lost
write(sv, c, m) ==
    IF sv.open[c] THEN [sv EXCEPT !.out[c] = Append(@, m)] ELSE sv

\* A continuation that runs once the current event's synchronous code is done.
queue(sv, h, at) == [sv EXCEPT !.micro = Append(@, [h EXCEPT !.at = at])]

\* Mutant: a reply is written to every open connection.
reply_Broadcast(sv, h, text) ==
    LET m == IF h.kind = "chat"
             THEN Response(h.req, "chat_response", h.sessionId, text)
             ELSE Response(h.req, "command_response", None, text)
    IN  [sv EXCEPT !.out = [c \in Conns |->
                              IF sv.open[c] THEN Append(sv.out[c], m)
                              ELSE sv.out[c]]]

\* Mutant: every reply is written as a command_response.
reply_AsCommand(sv, h, text) ==
    write(sv, h.conn, Response(h.req, "command_response", None, text))

\* The reply callbacks handleClientMessage hands to the router.
reply(sv, h, text) ==
    write(sv, h.conn,
          IF h.kind = "chat"
          THEN Response(h.req, "chat_response", h.sessionId, text)
          ELSE Response(h.req, "command_response", None, text))

\* router.ts handleMessage, from "Save user message" to the await of runAgent.
\* appendMessage throws when storage fails: the invocation is rejected.
saveUserAndRun(sv, h, storageOk) ==
    IF storageOk
    THEN [sv EXCEPT !.log = Append(@, [conn |-> h.conn, req |-> h.req,
                                       sender |-> h.sessionId]),
                    !.pend = @ \cup {[h EXCEPT !.at = "runAgent"]}]
    ELSE queue(sv, h, "catch")

\* router.ts handleCommand, up to its first suspension.
handleCommand(sv, h, storageOk) ==
    CASE h.text[1] = "R" ->
            IF storageOk THEN reply(sv, h, "Session cleared.")
            ELSE queue(sv, h, "catch")
      [] h.text[1] = "I" ->
            queue(reply(sv, h, "Installing"), h, "installSkillByName")
      [] OTHER -> queue(sv, h, "notHandled")

\* router.ts handleMessage, up to its first suspension.
handleMessage(sv, h, storageOk) ==
    IF h.text # <<>> /\ h.text[1] \in SlashWords
    THEN handleCommand(sv, h, storageOk)
    ELSE saveUserAndRun(sv, h, storageOk)

\* server.ts handleClientMessage, up to its first suspension.  It is an async
\* function the data handler does not await: what it throws outside its own
\* try blocks (reading .type of null) is a promise rejection nothing handles.
handleClientMessage(sv, c, req, msg, storageOk) ==
    CASE msg.kind = "ping" ->
            write(sv, c, Response(req, "pong", None, ""))
      [] msg.kind = "status" ->
            write(sv, c, Response(req, "status_response", None, ""))
      [] msg.kind = "null" ->
            queue(sv, Invocation(c, req, msg, ""), "unhandledRejection")
      [] msg.kind \in {"chat", "command"} ->
            handleMessage([sv EXCEPT !.clients[c] = msg.sessionId],
                          Invocation(c, req, msg, ""), storageOk)
      [] OTHER -> sv

\* Mutant: a line that does not parse ends the connection instead of being
\* answered.
processLine_EndsOnParseError(sv, c, line, storageOk) ==
    IF trim(line) = <<>> THEN sv
    ELSE LET msg == decode(line)
             req == Len(sv.disp[c]) + 1
             sv1 == [sv EXCEPT !.disp[c] = Append(@, msg)]
         IN  IF msg.kind = "SyntaxError"
             THEN [sv1 EXCEPT !.open[c] = FALSE]
             ELSE handleClientMessage(sv1, c, req, msg, storageOk)

\* server.ts data handler, the body of its loop over the complete lines.
processLine(sv, c, line, storageOk) ==
    IF trim(line) = <<>> THEN sv
    ELSE LET msg == decode(line)
             req == Len(sv.disp[c]) + 1
             sv1 == [sv EXCEPT !.disp[c] = Append(@, msg)]
         IN  IF msg.kind = "SyntaxError"
             THEN write(sv1, c, Response(req, "error", None, "Parse error"))
             ELSE handleClientMessage(sv1, c, req, msg, storageOk)

\* Mutant: the complete lines of a data event are taken last first.
RECURSIVE processLines_LastFirst(_, _, _, _)
processLines_LastFirst(sv, c, lines, storageOk) ==
    IF lines = <<>> THEN sv
    ELSE processLine(processLines_LastFirst(sv, c, Tail(lines), storageOk),
                     c, Head(lines), storageOk)

\* server.ts data handler, its loop over the complete lines
RECURSIVE processLines(_, _, _, _)
processLines(sv, c, lines, storageOk) ==
    IF lines = <<>> THEN sv
    ELSE processLines(processLine(sv, c, Head(lines), storageOk), c,
                      Tail(lines), storageOk)

ServerState ==
    [open |-> connOpen, clients |-> clients, out |-> outbox,
     disp |-> dispatched, micro |-> microtasks, pend |-> pending,
     log |-> transcript]

SetServerState(sv) ==
    /\ connOpen' = sv.open
    /\ clients' = sv.clients
    /\ outbox' = sv.out
    /\ dispatched' = sv.disp
    /\ microtasks' = sv.micro
    /\ pending' = sv.pend
    /\ transcript' = sv.log

CountLF(s) == Cardinality({i \in 1..Len(s) : s[i] = LF})

LinesWritten ==
    LET RECURSIVE Sum(_)
        Sum(S) == IF S = {} THEN 0
                  ELSE LET c == CHOOSE x \in S : TRUE
                       IN  CountLF(stream[c]) + Sum(S \ {c})
    IN  Sum(Conns)

ServerInit ==
    /\ daemonUp = TRUE
    /\ connOpen = [c \in Conns |-> TRUE]
    /\ stream = [c \in Conns |-> <<>>]
    /\ delivered = [c \in Conns |-> 0]
    /\ buffer = [c \in Conns |-> <<>>]
    /\ clients = [c \in Conns |-> None]
    /\ dispatched = [c \in Conns |-> <<>>]
    /\ outbox = [c \in Conns |-> <<>>]
    /\ microtasks = <<>>
    /\ pending = {}
    /\ transcript = <<>>
    /\ vocabulary \in {FramingLines, ObjectLines, RouterLines}

\* A client writes one line, encode(msg): the text and its newline.
ClientWrite(c) ==
    /\ daemonUp /\ connOpen[c]
    /\ LinesWritten < MaxLines
    /\ \E line \in vocabulary :
          stream' = [stream EXCEPT ![c] = @ \o line \o <<LF>>]
    /\ UNCHANGED <<daemonUp, connOpen, delivered, buffer, clients,
                   dispatched, outbox, microtasks, pending, vocabulary,
                   transcript>>

\* server.ts data(socket, raw): one data event hands over the next k bytes.
data(c) ==
    /\ daemonUp /\ connOpen[c] /\ microtasks = <<>>
    /\ \E k \in 1..(Len(stream[c]) - delivered[c]), storageOk \in BOOLEAN :
          LET raw == SubSeq(stream[c], delivered[c] + 1, delivered[c] + k)
              lines == split(buffer[c] \o toString(raw))
          IN  /\ delivered' = [delivered EXCEPT ![c] = @ + k]
              /\ buffer' = [buffer EXCEPT ![c] = lines[Len(lines)]]
              /\ SetServerState(
                    processLines(ServerState, c,
                                 SubSeq(lines, 1, Len(lines) - 1), storageOk))
    /\ UNCHANGED <<daemonUp, stream, vocabulary>>

\* server.ts close(socket): the client has closed its connection.
close(c) ==
    /\ daemonUp /\ connOpen[c] /\ microtasks = <<>>
    /\ connOpen' = [connOpen EXCEPT ![c] = FALSE]
    /\ clients' = [clients EXCEPT ![c] = None]
    /\ UNCHANGED <<daemonUp, stream, delivered, buffer, dispatched, outbox,
                   microtasks, pending, vocabulary, transcript>>

\* What the runtime does with a promise rejection nothing handles: by default
\* it reports the error and ends the process; a runtime set to warn goes on.
UnhandledRejectionModes == {"throw", "warn"}

\* The process ends: every connection closes, its memory is gone.
ProcessExit ==
    /\ daemonUp' = FALSE
    /\ connOpen' = [c \in Conns |-> FALSE]
    /\ clients' = [c \in Conns |-> None]
    /\ microtasks' = <<>>
    /\ pending' = {}
    /\ UNCHANGED <<stream, delivered, buffer, dispatched, outbox, vocabulary,
                   transcript>>

\* The continuation at the head of the microtask queue runs.
RunMicrotask ==
    /\ daemonUp /\ microtasks # <<>>
    /\ LET h == Head(microtasks)
           sv == [ServerState EXCEPT !.micro = Tail(microtasks)]
       IN  CASE h.at = "catch" ->
                   \* server.ts handleClientMessage, its catch blocks
                   /\ SetServerState(
                         write(sv, h.conn, Response(h.req, "error", None, "Error")))
                   /\ UNCHANGED <<daemonUp, stream, delivered, buffer, vocabulary>>
             [] h.at = "unhandledRejection" ->
                   \E mode \in UnhandledRejectionModes :
                      IF mode = "throw" THEN ProcessExit
                      ELSE /\ SetServerState(sv)
                           /\ UNCHANGED <<daemonUp, stream, delivered, buffer, vocabulary>>
             [] h.at = "installSkillByName" ->
                   \* router.ts handleCommand: after await reply("Installing ...")
                   /\ SetServerState(
                         [sv EXCEPT !.pend = @ \cup {h}])
                   /\ UNCHANGED <<daemonUp, stream, delivered, buffer, vocabulary>>
             [] OTHER ->
                   \* router.ts handleMessage: handleCommand returned false
                   /\ \E storageOk \in BOOLEAN :
                         SetServerState(saveUserAndRun(sv, h, storageOk))
                   /\ UNCHANGED <<daemonUp, stream, delivered, buffer, vocabulary>>

\* runAgent returns or throws (router.ts handleMessage, after the await): the
\* reply is the agent's text, or "Error: ..." when runAgent or the append of
\* the assistant's record threw.
AgentReturn ==
    /\ daemonUp /\ microtasks = <<>>
    /\ \E h \in pending, ok \in BOOLEAN :
          /\ h.at = "runAgent"
          /\ SetServerState(
                reply([ServerState EXCEPT !.pend = @ \ {h}], h,
                      IF ok THEN "agent text" ELSE "Error"))
    /\ UNCHANGED <<daemonUp, stream, delivered, buffer, vocabulary>>

\* installSkillByName returns its result or throws (router.ts handleCommand).
InstallReturn ==
    /\ daemonUp /\ microtasks = <<>>
    /\ \E h \in pending, result \in {"ok", "failed", "throws"} :
          /\ h.at = "installSkillByName"
          /\ LET sv == [ServerState EXCEPT !.pend = @ \ {h}]
             IN  SetServerState(
                    CASE result = "ok" -> reply(sv, h, "Installed")
                      [] result = "failed" -> reply(sv, h, "Failed")
                      [] OTHER -> queue(sv, h, "catch"))
    /\ UNCHANGED <<daemonUp, stream, delivered, buffer, vocabulary>>

(***************************************************************************)
(* Claims on the daemon server.                                            *)
(***************************************************************************)
\* The responses written to c that answer its request number n.
ResponsesTo(c, n) == {i \in 1..Len(outbox[c]) : outbox[c][i].req = n}

\* The handling of request n of c has run to its end.
Settled(c, n) ==
    /\ \A i \in 1..Len(microtasks) :
          ~(microtasks[i].conn = c /\ microtasks[i].req = n)
    /\ \A h \in pending : ~(h.conn = c /\ h.req = n)

\* The complete lines among the bytes handed over so far, decoded as one chunk.
CompleteLines(c) ==
    LET pieces == split(toString(SubSeq(stream[c], 1, delivered[c])))
    IN  SubSeq(pieces, 1, Len(pieces) - 1)

\* What the lines dispatch to when they arrive in one data event.
RECURSIVE DispatchOf(_)
DispatchOf(lines) ==
    IF lines = <<>> THEN <<>>
    ELSE IF trim(Head(lines)) = <<>> THEN DispatchOf(Tail(lines))
         ELSE <<decode(Head(lines))>> \o DispatchOf(Tail(lines))

\* C1 (as claimed): every ping, status, chat and command request gets exactly
\* one response on its connection: never more than one, and one once its
\* handling has ended on a connection that is still open.
C1_ExactlyOneResponse ==
    \A c \in Conns : \A n \in 1..Len(dispatched[c]) :
        dispatched[c][n].kind \in {"ping", "status", "chat", "command"} =>
            /\ Cardinality(ResponsesTo(c, n)) <= 1
            /\ (connOpen[c] /\ Settled(c, n)) =>
                   Cardinality(ResponsesTo(c, n)) = 1

\* C2 (as claimed): every complete line that JSON.parse rejects, a blank line
\* included, is answered by exactly one error response.
C2_EveryUnparseableLineAnswered ==
    \A c \in Conns :
        connOpen[c] =>
            Cardinality({i \in 1..Len(outbox[c]) :
                            outbox[c][i].text = "Parse error"})
            = Len(SelectSeq(CompleteLines(c),
                            LAMBDA l : JSONparse(trim(l)).kind = "SyntaxError"))

\* Non-blank decoded texts that do not parse: requests cut short, a request
\* without its opening brace, white space before a cut request, U+FFFD alone.
MalformedLines ==
    { <<"{">>,
      <<"{", "p">>,
      <<"p", "}">>,
      <<"{", "c", "2", "E9">>,
      <<SP, "{", "x">>,
      <<"FFFD">> }

BlankLines == {<<>>, <<SP>>, <<SP, SP>>}

\* C2 (amended): a non-blank line that does not parse is answered by exactly
\* one error response on its connection, and leaves everything else as it was
\* (the connection open, the registered sessionId, the handlers in flight), so
\* that the requests after it are dispatched and answered as without it; a
\* blank line is skipped without any response.
C2_MalformedLineIsolated ==
    \A c \in Conns :
        /\ \A n \in 1..Len(dispatched[c]) :
              dispatched[c][n].kind = "SyntaxError" =>
                  /\ Cardinality(ResponsesTo(c, n)) = 1
                  /\ \A i \in ResponsesTo(c, n) : outbox[c][i].type = "error"
        /\ Len(dispatched[c])
              = Len(SelectSeq(CompleteLines(c), LAMBDA l : trim(l) # <<>>))
        /\ (daemonUp /\ connOpen[c]) =>
              /\ \A l \in MalformedLines :
                    /\ decode(l).kind = "SyntaxError"
                    /\ processLine(ServerState, c, l, TRUE)
                       = [ServerState EXCEPT
                             !.disp[c] = Append(@, Value("SyntaxError", None, <<>>)),
                             !.out[c] = Append(@, Response(Len(dispatched[c]) + 1,
                                                   "error", None, "Parse error"))]
              /\ \A l \in BlankLines :
                    processLine(ServerState, c, l, TRUE) = ServerState

\* C2 witness: on an open connection a line that did not parse was answered by
\* an error, and the request after it was answered too.
C2_Witness ==
    \E c \in Conns : \E n \in 1..Len(dispatched[c]) :
        /\ connOpen[c]
        /\ dispatched[c][n].kind = "SyntaxError"
        /\ Len(dispatched[c]) > n
        /\ dispatched[c][n + 1].kind = "ping"
        /\ \E i \in ResponsesTo(c, n + 1) : outbox[c][i].type = "pong"

\* C3 (as claimed): whatever the clients send and whatever fails while a
\* request is handled, the daemon process stays alive.
C3_DaemonSurvives == daemonUp

\* C4 (as claimed): however the bytes were split into data events, the server
\* has dispatched what it dispatches when they arrive in one data event.
C4_SplitInvariance ==
    \A c \in Conns : dispatched[c] = DispatchOf(CompleteLines(c))

(***************************************************************************)
(* The process lifecycle.  Daemon processes are 1..MaxDaemons; pid 9 names *)
(* a process of an earlier run that no longer exists.  A daemon process is *)
(*   unborn      not spawned yet                                           *)
(*   booting     main() has started, daemon.pid is not written yet         *)
(*   pidWritten  daemon.pid written, the socket server not started yet     *)
(*   listening   the server listens; SIGTERM/SIGINT handlers not yet set   *)
(*   running     the handlers are registered                               *)
(*   signalled   SIGTERM received, shutdown() not yet run                  *)
(*   stopping    shutdown() closed the server and waits for the adapters   *)
(*   pidRemoved  shutdown() removed daemon.pid, process.exit not yet run   *)
(*   dead        the process is gone                                       *)
(*   foreign     a process of the same user that is no daemon: the pid of  *)
(*               a daemon that died was given to it                        *)
(***************************************************************************)
\* What reading the PID file gives when the file does not exist.
NoFile == <<"ENOENT">>

MaxDaemons == 3
PollLimit == 20

DaemonPids == 1..MaxDaemons
Clis == {"k1", "k2"}

Alive == {p \in DaemonPids : proc[p] \notin {"unborn", "dead"}}

Digits == <<"0", "1", "2", "3", "4", "5", "6", "7", "8", "9">>
IsDigit(ch) == \E i \in 1..Len(Digits) : Digits[i] = ch
DigitValue(ch) == (CHOOSE i \in 1..Len(Digits) : Digits[i] = ch) - 1

\* String(process.pid): the decimal text of a number
RECURSIVE String(_)
String(n) ==
    IF n < 10 THEN <<Digits[n + 1]>>
    ELSE String(n \div 10) \o <<Digits[(n % 10) + 1]>>

\* parseInt: the number the leading decimal digits spell, NaN without any
RECURSIVE parseDigits(_, _)
parseDigits(s, acc) ==
    IF s # <<>> /\ IsDigit(Head(s))
    THEN parseDigits(Tail(s), 10 * acc + DigitValue(Head(s)))
    ELSE acc

parseInt(s) ==
    IF s # <<>> /\ IsDigit(Head(s))
    THEN [nan |-> FALSE, val |-> parseDigits(s, 0)]
    ELSE [nan |-> TRUE, val |-> 0]

\* Mutant: a PID file that names no live process is removed by the probe.
isDaemonRunning_RemovesStaleFile(file, alive) ==
    IF file = NoFile THEN [running |-> FALSE, pid |-> 0, file |-> file]
    ELSE LET pid == parseInt(trim(file))
         IN  IF ~pid.nan /\ pid.val \in alive
             THEN [running |-> TRUE, pid |-> pid.val, file |-> file]
             ELSE [running |-> FALSE, pid |-> 0, file |-> NoFile]

\* daemon-ctl.ts isDaemonRunning, on the PID file's text and the processes
\* that exist: the result, and the PID file as the call leaves it.  pid 0
\* stands for "no pid".  process.kill(pid, 0) succeeds when pid exists.
isDaemonRunning(file, alive) ==
    IF file = NoFile THEN [running |-> FALSE, pid |-> 0, file |-> file]
    ELSE LET pid == parseInt(trim(file))
         IN  IF pid.nan THEN [running |-> FALSE, pid |-> 0, file |-> file]
             ELSE IF pid.val \in alive
                  THEN [running |-> TRUE, pid |-> pid.val, file |-> file]
                  ELSE [running |-> FALSE, pid |-> 0, file |-> file]

\* A CLI invocation calls isDaemonRunning() now: r is what it returns.
Probe(r) ==
    /\ r = isDaemonRunning(pidFile, Alive)
    /\ pidFile' = r.file

\* process.kill(pid, "SIGTERM"): a daemon whose handler is registered runs
\* shutdown(); before that the signal's default action ends the process.
SIGTERM(pr, p) ==
    IF p \notin DOMAIN pr THEN pr
    ELSE CASE pr[p] = "running" -> [pr EXCEPT ![p] = "signalled"]
           [] pr[p] \in {"booting", "pidWritten", "listening"} ->
                 [pr EXCEPT ![p] = "dead"]
           [] OTHER -> pr

\* process.kill(pid, "SIGKILL")
SIGKILL(pr, p) ==
    IF p \in DOMAIN pr /\ pr[p] \notin {"unborn", "dead"}
    THEN [pr EXCEPT ![p] = "dead"] ELSE pr

\* A CLI invocation: its command, where it is, the pid stopDaemon() signals
\* (pid), the pid restartDaemon() found running (old), the pid startDaemon()
\* reports (started), the polls done (i), the signals sent, the reports made.
IdleCli == [cmd |-> "none", pc |-> "idle", pid |-> 0, old |-> 0, started |-> 0,
            i |-> 0, sent |-> <<>>, said |-> <<>>]

\* What the state directory holds when the run begins: nothing; a PID file
\* cut short or overwritten with other text; the PID file and socket file an
\* unclean shutdown of process 9 left behind; or daemon 1 running.
LifecycleInit ==
    /\ cli = [k \in Clis |-> IdleCli]
    /\ \/ /\ pidFile \in {NoFile, <<"x">>}
          /\ sockFile = 0
          /\ proc = [p \in DaemonPids |-> "unborn"]
       \/ /\ pidFile = <<"9", LF>>
          /\ sockFile = 9
          /\ proc = [p \in DaemonPids |-> "unborn"]
       \/ /\ pidFile = String(1)
          /\ sockFile = 1
          /\ proc = [p \in DaemonPids |-> IF p = 1 THEN "running" ELSE "unborn"]

\* The operator runs nakedclaw start | stop | restart.
Invoke(k) ==
    /\ cli[k].pc = "idle"
    /\ \E cmd \in {"start", "stop", "restart"} :
          cli' = [cli EXCEPT ![k].cmd = cmd, ![k].pc = cmd]
    /\ UNCHANGED <<pidFile, sockFile, proc>>

\* Where an invocation continues when stopDaemon() returns.
AfterStop(k) == IF cli[k].cmd = "restart" THEN "start" ELSE "done"

\* daemon-ctl.ts startDaemon, lines 50-56: nothing to do when it runs.
startDaemon(k) ==
    /\ cli[k].pc = "start"
    /\ \E r \in {isDaemonRunning(pidFile, Alive)} :
          /\ Probe(r)
          /\ cli' = IF r.running
                    THEN [cli EXCEPT ![k].pc = "done",
                                     ![k].said = Append(@, "already running")]
                    ELSE [cli EXCEPT ![k].pc = "spawn"]
    /\ UNCHANGED <<sockFile, proc>>

\* daemon-ctl.ts startDaemon, lines 58-70: the daemon is spawned detached.
spawn(k) ==
    /\ cli[k].pc = "spawn"
    /\ \E p \in DaemonPids :
          /\ proc[p] = "unborn"
          /\ \A q \in DaemonPids : q < p => proc[q] # "unborn"
          /\ proc' = [proc EXCEPT ![p] = "booting"]
    /\ cli' = [cli EXCEPT ![k].pc = "startPoll", ![k].i = 0]
    /\ UNCHANGED <<pidFile, sockFile>>

\* daemon-ctl.ts startDaemon, lines 71-87: one turn of the wait for the PID
\* file, and the report.
startPoll(k) ==
    /\ cli[k].pc = "startPoll"
    /\ \E r \in {isDaemonRunning(pidFile, Alive)} :
          /\ Probe(r)
          /\ cli' = IF r.running
                    THEN [cli EXCEPT ![k].pc = "done", ![k].started = r.pid,
                                     ![k].i = 0,
                                     ![k].said = Append(@, "started")]
                    ELSE IF cli[k].i + 1 = PollLimit
                    THEN [cli EXCEPT ![k].pc = "done", ![k].i = 0,
                                     ![k].said = Append(@, "failed to start")]
                    ELSE [cli EXCEPT ![k].i = @ + 1]
    /\ UNCHANGED <<sockFile, proc>>

\* Mutant: stopDaemon() clears away a stale PID file and socket file.
stopNotRunning_CleansUp(k) ==
    /\ cli' = [cli EXCEPT ![k].pc = AfterStop(k),
                          ![k].said = Append(@, "not running")]
    /\ pidFile' = NoFile
    /\ sockFile' = 0
    /\ UNCHANGED proc

\* daemon-ctl.ts stopDaemon, lines 92-95: the daemon is not running.
stopNotRunning(k) ==
    /\ cli' = [cli EXCEPT ![k].pc = AfterStop(k),
                          ![k].said = Append(@, "not running")]
    /\ UNCHANGED <<pidFile, sockFile, proc>>

\* daemon-ctl.ts stopDaemon, lines 91-98.
stopDaemon(k) ==
    /\ cli[k].pc = "stop"
    /\ \E r \in {isDaemonRunning(pidFile, Alive)} :
          IF r.running
          THEN /\ Probe(r)
               /\ proc' = SIGTERM(proc, r.pid)
               /\ cli' = [cli EXCEPT ![k].pc = "stopPoll", ![k].pid = r.pid,
                                     ![k].i = 0,
                                     ![k].sent = Append(@, "SIGTERM")]
               /\ UNCHANGED sockFile
          ELSE stopNotRunning(k)

\* daemon-ctl.ts stopDaemon, lines 100-106: one turn of the wait for the exit.
stopPoll(k) ==
    /\ cli[k].pc = "stopPoll"
    /\ \E r \in {isDaemonRunning(pidFile, Alive)} :
          /\ Probe(r)
          /\ cli' = IF ~r.running
                    THEN [cli EXCEPT ![k].pc = AfterStop(k), ![k].i = 0,
                                     ![k].said = Append(@, "stopped")]
                    ELSE IF cli[k].i + 1 = PollLimit
                    THEN [cli EXCEPT ![k].pc = "kill", ![k].i = @ + 1]
                    ELSE [cli EXCEPT ![k].i = @ + 1]
    /\ UNCHANGED <<sockFile, proc>>

\* daemon-ctl.ts stopDaemon, lines 108-112: the forceful signal.
stopKill(k) ==
    /\ cli[k].pc = "kill"
    /\ proc' = SIGKILL(proc, cli[k].pid)
    /\ cli' = [cli EXCEPT ![k].pc = AfterStop(k), ![k].i = 0,
                          ![k].sent = Append(@, "SIGKILL"),
                          ![k].said = Append(@, "killed")]
    /\ UNCHANGED <<pidFile, sockFile>>

\* daemon-ctl.ts restartDaemon, lines 116-119.
restartDaemon(k) ==
    /\ cli[k].pc = "restart"
    /\ \E r \in {isDaemonRunning(pidFile, Alive)} :
          /\ Probe(r)
          /\ cli' = [cli EXCEPT ![k].old = r.pid,
                                ![k].pc = IF r.running THEN "stop" ELSE "start"]
    /\ UNCHANGED <<sockFile, proc>>

\* index.ts main, lines 37-39: the daemon writes its pid to the PID file.
writePidFile(p) ==
    /\ proc[p] = "booting"
    /\ pidFile' = String(p)
    /\ proc' = [proc EXCEPT ![p] = "pidWritten"]
    /\ UNCHANGED <<sockFile, cli>>

\* server.ts startDaemonServer: a socket file that exists is removed, and the
\* server binds the path, which creates the file anew.
startDaemonServer(p) ==
    /\ proc[p] = "pidWritten"
    /\ sockFile' = p
    /\ proc' = [proc EXCEPT ![p] = "listening"]
    /\ UNCHANGED <<pidFile, cli>>

\* index.ts main, lines 44-161: scheduler, heartbeat and channels are up and
\* the SIGINT/SIGTERM handlers are registered.
registerShutdown(p) ==
    /\ proc[p] = "listening"
    /\ proc' = [proc EXCEPT ![p] = "running"]
    /\ UNCHANGED <<pidFile, sockFile, cli>>

\* index.ts shutdown, lines 147-150, and server.ts stop(): the server stops
\* and the socket file, if there is one, is removed.
shutdown(p) ==
    /\ proc[p] = "signalled"
    /\ sockFile' = 0
    /\ proc' = [proc EXCEPT ![p] = "stopping"]
    /\ UNCHANGED <<pidFile, cli>>

\* index.ts shutdown, lines 151-156: the adapters have stopped (a step that
\* need never come: adapter.stop() may hang) and the PID file is removed.
shutdownUnlinkPid(p) ==
    /\ proc[p] = "stopping"
    /\ pidFile' = NoFile
    /\ proc' = [proc EXCEPT ![p] = "pidRemoved"]
    /\ UNCHANGED <<sockFile, cli>>

\* index.ts shutdown, line 157: process.exit(0)
shutdownExit(p) ==
    /\ proc[p] = "pidRemoved"
    /\ proc' = [proc EXCEPT ![p] = "dead"]
    /\ UNCHANGED <<pidFile, sockFile, cli>>

(***************************************************************************)
(* Lifecycle claims.                                                       *)
(***************************************************************************)
\* The PID file holds the decimal pid of a process that exists, give or take
\* surrounding white space.  Stated on the text, without parseInt.
NamesLiveProcess ==
    /\ pidFile # NoFile
    /\ \E p \in Alive : trim(pidFile) = String(p)

\* An invocation of stopDaemon() has returned once it has made its report.
StopReturned(k) ==
    \E n \in DOMAIN cli[k].said :
        cli[k].said[n] \in {"not running", "stopped", "killed"}

\* The reports an invocation has made, as a set.
Said(k) == {cli[k].said[n] : n \in DOMAIN cli[k].said}

\* C5: at most one daemon process exists at any time, and a daemon that is
\* up is the one the PID file names and the one that made the socket file.
C5_SingleDaemon ==
    /\ Cardinality(Alive) <= 1
    /\ \A p \in DaemonPids :
          proc[p] = "running" => pidFile = String(p) /\ sockFile = p

C7_StopLeavesNoDaemon ==
    \A k \in Clis :
        /\ cli[k].sent \in {<<>>, <<"SIGTERM">>, <<"SIGTERM", "SIGKILL">>}
        /\ cli[k].pc = "kill" => cli[k].i = PollLimit
        /\ (cli[k].sent # <<>> /\ StopReturned(k))
              => proc[cli[k].pid] = "dead"

C9_RestartReplacesDaemon ==
    [][\A k \in Clis :
          /\ (cli[k].cmd = "restart" /\ cli[k].pc = "spawn"
                 /\ cli'[k].pc = "startPoll" /\ cli[k].old # 0)
                => StopReturned(k)
          /\ (cli[k].cmd = "restart" /\ cli'[k].said # cli[k].said
                 /\ cli'[k].said = Append(cli[k].said, "started"))
                => /\ Alive' = {cli'[k].started}
                   /\ cli'[k].started # cli[k].old]_vars

(***************************************************************************)
(* nakedclaw status: showStatus() and queryDaemonStatus().  The state      *)
(* directory and the daemon are as a lifecycle run may leave them; the     *)
(* daemon answers the status request, or does not, and may exit.           *)
(***************************************************************************)
null == Value("null", None, <<>>)

\* A process that listens on the socket path it bound.
Listening(p) == p \in DaemonPids /\ proc[p] \in {"listening", "running", "signalled"}

StatusInit ==
    /\ stPc = "showStatus"
    /\ settled = FALSE
    /\ timeout = "unset"
    /\ qbuffer = <<>>
    /\ resolved = <<>>
    /\ qsock = "none"
    /\ qwire = <<>>
    /\ qdelivered = 0
    /\ printed = <<>>
    /\ cli = [k \in Clis |-> IdleCli]
    /\ \/ /\ pidFile = NoFile /\ sockFile = 0
          /\ proc = [p \in DaemonPids |-> "unborn"]
       \/ /\ pidFile = <<"9", LF>> /\ sockFile = 9
          /\ proc = [p \in DaemonPids |-> "unborn"]
       \/ /\ pidFile = String(1) /\ sockFile \in {0, 9}
          /\ proc = [p \in DaemonPids |-> IF p = 1 THEN "pidWritten" ELSE "unborn"]
       \/ /\ pidFile = String(1) /\ sockFile = 1
          /\ proc = [p \in DaemonPids |-> IF p = 1 THEN "running" ELSE "unborn"]

\* queryDaemonStatus: if (!settled) { settled = true; clearTimeout(timeout);
\* resolvePromise(null); } as the close, error and catch handlers have it.
settleNull ==
    IF settled THEN UNCHANGED <<settled, timeout, resolved>>
    ELSE /\ settled' = TRUE
         /\ timeout' = IF timeout = "armed" THEN "cleared" ELSE timeout
         /\ resolved' = <<null>>

\* daemon-ctl.ts showStatus, lines 124-142, and queryDaemonStatus up to the
\* call of Bun.connect, which arms the timer.
showStatus ==
    /\ stPc = "showStatus"
    /\ LET status == isDaemonRunning(pidFile, Alive)
       IN  IF ~status.running
           THEN /\ printed' = Append(printed, "not running")
                /\ stPc' = "done"
                /\ UNCHANGED timeout
           ELSE IF sockFile = 0
           THEN /\ printed' = printed \o <<"running", "socket not found">>
                /\ stPc' = "done"
                /\ UNCHANGED timeout
           ELSE /\ printed' = Append(printed, "running")
                /\ stPc' = "connect"
                /\ timeout' = "armed"
    /\ UNCHANGED <<settled, qbuffer, resolved, qsock, qwire, qdelivered, proc>>

\* queryDaemonStatus: await Bun.connect.  It throws when no process listens
\* on the socket path, and the catch settles with null; else open() writes
\* the status request.  Either way the function returns the promise.
connect ==
    /\ stPc = "connect"
    /\ stPc' = "await"
    /\ IF Listening(sockFile)
       THEN /\ qsock' = "open"
            /\ UNCHANGED <<settled, timeout, resolved>>
       ELSE /\ qsock' = "refused"
            /\ settleNull
    /\ UNCHANGED <<qbuffer, qwire, qdelivered, printed, proc>>

\* server.ts handleClientMessage, case "status": the daemon answers the
\* status request with one status_response line.
statusResponse ==
    /\ qsock = "open"
    /\ qwire = <<>>
    /\ Listening(sockFile)
    /\ \E sessions \in CountChars, jobs \in CountChars :
          qwire' = encode(sessions, jobs)
    /\ UNCHANGED <<stPc, settled, timeout, qbuffer, resolved, qsock,
                   qdelivered, printed, proc>>

\* The lines of the buffer, the unterminated last one included, that decode
\* to a status_response.
StatusLines(buf) ==
    LET lines == split(buf)
    IN  {n \in DOMAIN lines :
            trim(lines[n]) # <<>> /\ decode(lines[n]).kind = "status_response"}

\* queryDaemonStatus, the data handler.
queryData ==
    /\ qsock \in {"open", "ended"}
    /\ \E k \in 1..(Len(qwire) - qdelivered) :
          LET raw == SubSeq(qwire, qdelivered + 1, qdelivered + k)
              buf == qbuffer \o toString(raw)
              lines == split(buf)
              hit == StatusLines(buf)
          IN  /\ qdelivered' = qdelivered + k
              /\ qbuffer' = buf
              /\ IF hit # {} /\ ~settled
                 THEN /\ settled' = TRUE
                      /\ timeout' = IF timeout = "armed" THEN "cleared"
                                    ELSE timeout
                      /\ qsock' = "ended"
                      /\ resolved' =
                            <<decode(lines[CHOOSE n \in hit :
                                              \A m \in hit : n <= m])>>
                 ELSE UNCHANGED <<settled, timeout, qsock, resolved>>
    /\ UNCHANGED <<stPc, qwire, printed, proc>>

\* The daemon process ends while the status connection is open, and
\* queryDaemonStatus's close handler runs.
queryClose ==
    /\ qsock = "open"
    /\ qsock' = "closed"
    /\ proc' = [proc EXCEPT ![sockFile] = "dead"]
    /\ settleNull
    /\ UNCHANGED <<stPc, qbuffer, qwire, qdelivered, printed>>

\* queryDaemonStatus, the error handler: the connection fails.
queryError ==
    /\ qsock = "open"
    /\ qsock' = "error"
    /\ settleNull
    /\ UNCHANGED <<stPc, qbuffer, qwire, qdelivered, printed, proc>>

\* queryDaemonStatus, the timer's callback: 3 s have passed.  The socket is
\* left as it is.
queryTimeout ==
    /\ timeout = "armed"
    /\ timeout' = "fired"
    /\ IF settled THEN UNCHANGED <<settled, resolved>>
       ELSE settled' = TRUE /\ resolved' = <<null>>
    /\ UNCHANGED <<stPc, qbuffer, qsock, qwire, qdelivered, printed, proc>>

\* daemon-ctl.ts showStatus, lines 144-155: what follows the await.  The
\* promise is never rejected, so the catch that prints "Could not query
\* daemon for details." has no way to run.
showStatusData ==
    /\ stPc = "await"
    /\ resolved # <<>>
    /\ stPc' = "done"
    /\ printed' = IF resolved[1] # null THEN Append(printed, "details")
                  ELSE printed
    /\ UNCHANGED <<settled, timeout, qbuffer, resolved, qsock, qwire,
                   qdelivered, proc>>

\* C10: when the daemon runs and accepted the status connection, and the
\* query ended without a status_response (3 s passed, the connection closed
\* or failed), status() has reported "could not query" when it is done.
C10_ReportsCouldNotQuery ==
    (stPc = "done" /\ qsock \in {"open", "closed", "error"}
        /\ resolved = <<null>>)
       => \E n \in DOMAIN printed : printed[n] = "could not query"

(***************************************************************************)
(* Session transcripts (session.ts): one JSONL file per session key.  A    *)
(* message is [role, content]; its content is a text that may hold a       *)
(* newline.  JSON.stringify writes the newline as the escape \n, one       *)
(* symbol "bsn" here, so that a message is one line of the file.           *)
(***************************************************************************)
\* Appends made in a run, over all sessions.
MaxAppends == 4
\* The largest config.sessions.maxTurns of a run.
MaxTurnsCfg == 1

SessionKeys == {"terminal:1", "terminal:2"}
Roles == {"u", "s"}
Contents == {<<"a">>, <<"a", LF, "a">>}
SessionMessages == [role : Roles, content : Contents]

\* JSON.stringify of a string's characters
RECURSIVE escape(_)
escape(t) ==
    IF t = <<>> THEN <<>>
    ELSE (IF Head(t) = LF THEN <<"bsn">> ELSE <<Head(t)>>) \o escape(Tail(t))

\* JSON.parse of a string's characters
RECURSIVE unescape(_)
unescape(t) ==
    IF t = <<>> THEN <<>>
    ELSE (IF Head(t) = "bsn" THEN <<LF>> ELSE <<Head(t)>>) \o unescape(Tail(t))

\* JSON.stringify(msg) of a SessionMessage
JSONstringify(msg) == <<"{", msg.role>> \o escape(msg.content) \o <<"}">>

\* JSON.parse(l) as SessionMessage
JSONparseMessage(l) ==
    [role |-> l[2], content |-> unescape(SubSeq(l, 3, Len(l) - 1))]

\* fs.appendFileSync(path, data): the file is created when it is absent.
appendFileSync(file, text) == IF file = NoFile THEN text ELSE file \o text

\* session.ts appendMessage, on the session files
appendMessage(files, key, msg) ==
    [files EXCEPT ![key] = appendFileSync(@, JSONstringify(msg) \o <<LF>>)]

\* Array.prototype.slice(start): a negative start counts from the end, and
\* -0 is 0.
slice(seq, start) ==
    LET from == IF start < 0 THEN (IF Len(seq) + start > 0
                                   THEN Len(seq) + start ELSE 0)
                ELSE (IF start < Len(seq) THEN start ELSE Len(seq))
    IN  SubSeq(seq, from + 1, Len(seq))

\* session.ts getMessages, on the session files
getMessages(files, key, turns) ==
    IF files[key] = NoFile THEN <<>>
    ELSE LET lines == SelectSeq(split(files[key]), LAMBDA l : trim(l) # <<>>)
             messages == [i \in 1..Len(lines) |-> JSONparseMessage(lines[i])]
         IN  IF Len(messages) > turns * 2
             THEN slice(messages, -(turns * 2))
             ELSE messages

\* Mutant: clearSession unlinks without looking, which throws ENOENT when
\* the log is absent.
clearSession_Unguarded(files, key) ==
    [files |-> [files EXCEPT ![key] = NoFile], threw |-> files[key] = NoFile]

\* session.ts clearSession, on the session files: the files as it leaves
\* them, and whether it threw.
clearSession(files, key) ==
    IF files[key] # NoFile
    THEN [files |-> [files EXCEPT ![key] = NoFile], threw |-> FALSE]
    ELSE [files |-> files, threw |-> FALSE]

SessionInit ==
    /\ maxTurns \in 0..MaxTurnsCfg
    /\ sessionFile = [key \in SessionKeys |-> NoFile]
    /\ appended = [key \in SessionKeys |-> <<>>]
    /\ clears = [key \in SessionKeys |-> 0]

TotalAppended ==
    LET RECURSIVE Sum(_)
        Sum(S) == IF S = {} THEN 0
                  ELSE LET key == CHOOSE x \in S : TRUE
                       IN  Len(appended[key]) + Sum(S \ {key})
    IN  Sum(SessionKeys)

\* router.ts handleMessage appends the user's or the assistant's message.
AppendMessage(key) ==
    /\ TotalAppended < MaxAppends
    /\ \E msg \in SessionMessages :
          /\ sessionFile' = appendMessage(sessionFile, key, msg)
          /\ appended' = [appended EXCEPT ![key] = Append(@, msg)]
    /\ clears' = [clears EXCEPT ![key] = 0]
    /\ UNCHANGED maxTurns

\* router.ts handleCommand, /reset: the session is cleared.
ClearSession(key) ==
    /\ clears[key] < 2
    /\ ~clearSession(sessionFile, key).threw
    /\ sessionFile' = clearSession(sessionFile, key).files
    /\ appended' = [appended EXCEPT ![key] = <<>>]
    /\ clears' = [clears EXCEPT ![key] = @ + 1]
    /\ UNCHANGED maxTurns

\* The last n elements of seq.
LastN(seq, n) == SubSeq(seq, Len(seq) - n + 1, Len(seq))

Min(a, b) == IF a < b THEN a ELSE b

\* C11: getMessages returns the min(N, 2 * maxTurns) most recent of the N
\* messages appended to the session, in the order of their appending, and
\* the empty sequence when the session has no log.
C11_ReadReturnsMostRecent ==
    \A key \in SessionKeys :
        /\ getMessages(sessionFile, key, maxTurns)
              = LastN(appended[key], Min(Len(appended[key]), 2 * maxTurns))
        /\ sessionFile[key] = NoFile
              => getMessages(sessionFile, key, maxTurns) = <<>>

\* C12: clearSession does not throw, with or without a log; after it the
\* session has no log and reads as empty, the other sessions' logs are as
\* they were, and a second call changes nothing.
C12_ClearIdempotent ==
    \A key \in SessionKeys :
        LET once == clearSession(sessionFile, key)
            twice == clearSession(once.files, key)
        IN  /\ ~once.threw /\ ~twice.threw
            /\ twice.files = once.files
            /\ once.files[key] = NoFile
            /\ getMessages(once.files, key, maxTurns) = <<>>
            /\ \A other \in SessionKeys \ {key} :
                  once.files[other] = sessionFile[other]

\* C12 happens: a session with a log was cleared twice in a row, while the
\* other session keeps its log.
C12_Witness ==
    \E key \in SessionKeys :
        /\ clears[key] = 2
        /\ sessionFile[key] = NoFile
        /\ \E other \in SessionKeys \ {key} :
              /\ sessionFile[other] # NoFile
              /\ Len(appended[other]) = 2

(***************************************************************************)
(* The scheduler (scheduler/scheduler.ts).  Time is counted in cron        *)
(* instants.  A cron expression is [period, phase]: it matches the         *)
(* instants t with t % period = phase.  "every day at" gives a recurring   *)
(* expression; "at H" and "in N minutes" give minute hour day month *,     *)
(* which matches once a year.  A job is [id, cronExpr, oneShot, sender,    *)
(* nextRunAt, lastRunAt]; -1 stands for a field that is undefined, which   *)
(* JSON.stringify leaves out.  parseTimeToJob copies the hour it is given  *)
(* into the expression unchecked ("every day at 25" gives hour 25): an     *)
(* expression whose phase is not below its period matches no instant, and  *)
(* new Cron(...) throws on it.  A scheduler state sc is [store, active,    *)
(* file, threw]: jobStore, activeJobs, the jobs file, and whether the      *)
(* operation threw.  Main() has no check for another daemon, so two daemon *)
(* processes may run on the one jobs file.                                 *)
(***************************************************************************)
\* The clock stops here.
MaxTime == 3
\* Jobs added in a run.
MaxJobs == 1

Daemons == {"d1", "d2"}
Instants == 0..MaxTime
JobIds == 1..MaxJobs
\* An id no job has.
UnknownId == 0
Undefined == -1
Year == MaxTime + 1
Day == 2

CronExprs ==
    [period : {Day}, phase : 0..Day] \cup [period : {Year}, phase : 1..Year]

\* new Cron(expr, ...) takes the expression: each field is in its range
Valid(expr) == expr.phase < expr.period

\* croner nextRun(): the first instant after t that the expression matches
nextRun(expr, t) ==
    CHOOSE u \in (t + 1)..(t + expr.period) : u % expr.period = expr.phase

\* scheduler.ts saveJobs: the jobs file is written from jobStore
saveJobs(sc) == [sc EXCEPT !.file = [exists |-> TRUE, jobs |-> sc.store]]

\* scheduler.ts loadJobs
loadJobs(file) == IF file.exists THEN file.jobs ELSE <<>>

\* Cron.stop() of the timer of id, if activeJobs has one
stopCron(active, id) == {t \in active : t.id # id}

\* job.nextRunAt = t, for the job of the store with the given id
SetNextRunAt(store, id, t) ==
    [i \in 1..Len(store) |->
        IF store[i].id = id THEN [store[i] EXCEPT !.nextRunAt = t]
        ELSE store[i]]

\* scheduler.ts startCronForJob at instant t: a timer of the same id is
\* stopped; new Cron throws, or the new timer is armed for the next match
\* and job.nextRunAt is set.
startCronForJob(sc, job, t) ==
    IF ~Valid(job.cronExpr)
    THEN [sc EXCEPT !.active = stopCron(@, job.id), !.threw = TRUE]
    ELSE LET next == nextRun(job.cronExpr, t)
         IN  [sc EXCEPT
                !.active = stopCron(@, job.id)
                              \cup {[id |-> job.id, next |-> next]},
                !.store = SetNextRunAt(@, job.id, next)]

\* scheduler.ts initScheduler, its loop: it ends at the first throw
RECURSIVE startCrons(_, _, _)
startCrons(sc, jobs, t) ==
    IF jobs = <<>> \/ sc.threw THEN sc
    ELSE startCrons(startCronForJob(sc, Head(jobs), t), Tail(jobs), t)

\* scheduler.ts initScheduler at instant t
initScheduler(sc, t) ==
    LET loaded == loadJobs(sc.file)
    IN  startCrons([sc EXCEPT !.store = loaded], loaded, t)

\* scheduler.ts addJob at instant t
addJob(sc, job, t) ==
    startCronForJob(saveJobs([sc EXCEPT !.store = Append(@, job)]), job, t)

\* Mutant: removeJob leaves the timer of the job armed.
removeJob_KeepsTimer(sc, id) ==
    saveJobs([sc EXCEPT !.store = SelectSeq(@, LAMBDA j : j.id # id)])

\* Mutant: removeJob forgets to write the jobs file.
removeJob_NoSave(sc, id) ==
    [sc EXCEPT !.active = stopCron(@, id),
               !.store = SelectSeq(@, LAMBDA j : j.id # id)]

\* scheduler.ts removeJob: the scheduler state it leaves
removeJob(sc, id) ==
    saveJobs([sc EXCEPT !.active = stopCron(@, id),
                        !.store = SelectSeq(@, LAMBDA j : j.id # id)])

\* scheduler.ts removeJob: its result
removeJobResult(sc, id) == Len(removeJob(sc, id).store) < Len(sc.store)

\* scheduler.ts listJobs
listJobs(store) == {store[i].id : i \in DOMAIN store}

\* The job of a store with the given id
JobOf(store, id) == store[CHOOSE i \in DOMAIN store : store[i].id = id]

\* scheduler.ts startCronForJob, the timer's callback at instant t, after
\* onFireCallback(job): job.lastRunAt is set; a one-shot job is removed, the
\* store of a recurring one is saved; croner arms the timer for the next
\* match.
fire(sc, id, t) ==
    LET job == JobOf(sc.store, id)
        ran == [sc EXCEPT
                  !.store = [i \in 1..Len(@) |->
                                IF @[i].id = id
                                THEN [@[i] EXCEPT !.lastRunAt = t] ELSE @[i]],
                  !.active = stopCron(@, id)
                                \cup {[id |-> id,
                                       next |-> nextRun(job.cronExpr, t)]}]
    IN  IF job.oneShot THEN removeJob(ran, id) ELSE saveJobs(ran)

Scheduler(d) ==
    [store |-> jobStore[d], active |-> activeJobs[d], file |-> jobsFile,
     threw |-> FALSE]

SetScheduler(d, sc) ==
    /\ jobStore' = [jobStore EXCEPT ![d] = sc.store]
    /\ activeJobs' = [activeJobs EXCEPT ![d] = sc.active]
    /\ jobsFile' = sc.file

\* The terminal session a job comes from.
Senders == {"1"}

\* A timer of process d is due.
Due(d) == {t \in activeJobs[d] : t.next = now}

SchedInit ==
    /\ now = 0
    /\ jobsFile = [exists |-> FALSE, jobs |-> <<>>]
    /\ booted = [d \in Daemons |-> "down"]
    /\ jobStore = [d \in Daemons |-> <<>>]
    /\ activeJobs = [d \in Daemons |-> {}]
    /\ nextUuid = 1
    /\ agentRuns = {}
    /\ invoked = [id \in JobIds |-> 0]

\* index.ts main of process d: initScheduler(), then setJobCallback.  When
\* initScheduler throws, main().catch logs "Fatal:" and the process exits.
Boot(d) ==
    /\ booted[d] # "up"
    /\ LET sc == initScheduler(Scheduler(d), now)
       IN  IF sc.threw
           THEN /\ booted' = [booted EXCEPT ![d] = "fatal"]
                /\ UNCHANGED <<jobsFile, jobStore, activeJobs>>
           ELSE /\ booted' = [booted EXCEPT ![d] = "up"]
                /\ SetScheduler(d, sc)
    /\ UNCHANGED <<now, nextUuid, agentRuns, invoked>>

\* router.ts /schedule in process d: addJob(parsed.job).  parseTimeToJob
\* gives a recurring expression, or a one-shot one for an instant to come.
\* When addJob throws, the job is in jobStore and in the file, with no timer.
AddJob(d) ==
    /\ booted[d] = "up"
    /\ nextUuid <= MaxJobs
    /\ \E expr \in CronExprs, sender \in Senders :
          /\ expr.period = Year => expr.phase > now
          /\ SetScheduler(d, addJob(Scheduler(d),
                                    [id |-> nextUuid, cronExpr |-> expr,
                                     oneShot |-> (expr.period = Year),
                                     sender |-> sender,
                                     nextRunAt |-> Undefined,
                                     lastRunAt |-> Undefined],
                                    now))
    /\ nextUuid' = nextUuid + 1
    /\ UNCHANGED <<now, booted, agentRuns, invoked>>

\* router.ts /cancel in process d: removeJob(arg), for any id typed.
RemoveJobId(d, id) ==
    /\ booted[d] = "up"
    /\ SetScheduler(d, removeJob(Scheduler(d), id))
    /\ UNCHANGED <<now, booted, nextUuid, agentRuns, invoked>>

RemoveJob(d) == \E id \in JobIds \cup {UnknownId} : RemoveJobId(d, id)

\* A due timer of process d fires: onFireCallback(job) runs up to its await
\* of runAgent, and the timer's callback runs to its end.
FireJob(d, id) ==
    /\ booted[d] = "up"
    /\ id \in {t.id : t \in Due(d)}
    /\ invoked' = [invoked EXCEPT ![id] = @ + 1]
    /\ agentRuns' = agentRuns \cup
          {[daemon |-> d, id |-> id,
            oneShot |-> JobOf(jobStore[d], id).oneShot,
            sender |-> JobOf(jobStore[d], id).sender]}
    /\ SetScheduler(d, fire(Scheduler(d), id, now))
    /\ UNCHANGED <<now, booted, nextUuid>>

Fire(d) == \E id \in JobIds : FireJob(d, id)

\* index.ts job callback, after runAgent: the result goes to console.log.
JobResultOf(r) ==
    /\ r \in agentRuns
    /\ agentRuns' = agentRuns \ {r}
    /\ UNCHANGED <<now, jobsFile, booted, jobStore, activeJobs, nextUuid,
                   invoked>>

JobResult == \E r \in agentRuns : JobResultOf(r)

\* index.ts shutdown of process d: stopScheduler(), then process.exit.
Shutdown(d) ==
    /\ booted[d] = "up"
    /\ booted' = [booted EXCEPT ![d] = "down"]
    /\ jobStore' = [jobStore EXCEPT ![d] = <<>>]
    /\ activeJobs' = [activeJobs EXCEPT ![d] = {}]
    /\ agentRuns' = {r \in agentRuns : r.daemon # d}
    /\ UNCHANGED <<now, jobsFile, nextUuid, invoked>>

\* A minute passes; the timers that are due have fired.
Tick ==
    /\ now < MaxTime
    /\ \A d \in Daemons : Due(d) = {}
    /\ now' = now + 1
    /\ invoked' = [id \in JobIds |-> 0]
    /\ UNCHANGED <<jobsFile, booted, jobStore, activeJobs, nextUuid,
                   agentRuns>>

\* C13: removeJob with an id no job of the store has returns false and
\* changes nothing: not the in-memory list, not the armed timers, not the
\* jobs the persisted store holds.
C13_UnknownIdChangesNothing ==
    [][\A d \in Daemons, id \in JobIds \cup {UnknownId} :
          (id \notin listJobs(jobStore[d]) /\ RemoveJobId(d, id))
              => /\ ~removeJobResult(Scheduler(d), id)
                 /\ jobStore' = jobStore
                 /\ activeJobs' = activeJobs
                 /\ loadJobs(jobsFile') = loadJobs(jobsFile)]_vars

\* The timers of process d that are armed for job id.
Armed(active, id) == {t \in active : t.id = id}

\* C14: when the timer of a one-shot job has fired, the job is in neither
\* listJobs() nor the persisted store and no timer is armed for it, by the
\* end of the step that fired it.
C14_OneShotGoneAfterFire ==
    [][\A d \in Daemons, id \in JobIds :
          (FireJob(d, id) /\ JobOf(jobStore[d], id).oneShot)
              => /\ id \notin listJobs(jobStore'[d])
                 /\ id \notin listJobs(loadJobs(jobsFile'))
                 /\ Armed(activeJobs'[d], id) = {}]_vars

\* A one-shot job has fired in a process that had it persisted, and is gone.
C14_Witness ==
    \E r \in agentRuns :
        /\ r.oneShot
        /\ invoked[r.id] = 1
        /\ jobsFile.exists
        /\ r.id \notin listJobs(loadJobs(jobsFile))
        /\ r.id \notin listJobs(jobStore[r.daemon])

\* C15: after every fire of a recurring job, the job is still in listJobs()
\* with a timer armed, and its nextRunAt, in memory and in the persisted
\* store, is strictly greater than the instant that fired.
C15_RecurringRearmed ==
    [][\A d \in Daemons, id \in JobIds :
          (FireJob(d, id) /\ ~JobOf(jobStore[d], id).oneShot)
              => /\ id \in listJobs(jobStore'[d])
                 /\ Armed(activeJobs'[d], id) # {}
                 /\ JobOf(jobStore'[d], id).nextRunAt > now
                 /\ id \in listJobs(loadJobs(jobsFile'))
                 /\ JobOf(loadJobs(jobsFile'), id).nextRunAt > now]_vars

\* C16: after initScheduler on boot, every persisted job is in listJobs()
\* with exactly one armed timer and a nextRunAt strictly after the boot
\* instant, and the boot invokes no callback.
C16_BootRestoresJobs ==
    [][\A d \in Daemons :
          Boot(d)
              => /\ invoked' = invoked
                 /\ \A id \in listJobs(loadJobs(jobsFile)) :
                       /\ id \in listJobs(jobStore'[d])
                       /\ Cardinality(Armed(activeJobs'[d], id)) = 1
                       /\ \A t \in Armed(activeJobs'[d], id) : t.next > now
                       /\ JobOf(jobStore'[d], id).nextRunAt > now]_vars

\* C17: for every job and every scheduled instant, the job callback is
\* invoked at most once, over any sequence of addJob, removeJob,
\* initScheduler, stopScheduler, daemon restarts and timer firings.
C17_AtMostOncePerInstant == \A id \in JobIds : invoked[id] <= 1

\* C18: when the run of a scheduled job from a terminal session ends while
\* a client is connected and registered under the job's sessionId, the
\* result is pushed to that client's connection.
C18_ResultPushedToClient ==
    [][\A r \in agentRuns :
          JobResultOf(r)
              => \A c \in Conns :
                    (connOpen[c] /\ clients[c] = r.sender)
                        => /\ Len(outbox'[c]) = Len(outbox[c]) + 1
                           /\ outbox'[c][Len(outbox'[c])].type
                                 = "chat_response"
                           /\ outbox'[c][Len(outbox'[c])].sessionId
                                 = r.sender]_vars

\* C25: in every reachable state of the scheduler of a process, each job id
\* has at most one armed timer, and a job that removeJob or the fire of a
\* one-shot job took from the list has none.
C25_AtMostOneTimer ==
    \A d \in Daemons, id \in JobIds \cup {UnknownId} :
        /\ Cardinality(Armed(activeJobs[d], id)) <= 1
        /\ id \notin listJobs(jobStore[d]) => Armed(activeJobs[d], id) = {}

\* A recurring job has fired and its timer is armed again, once.
C25_Witness ==
    \E d \in Daemons, id \in JobIds :
        /\ id \in listJobs(jobStore[d])
        /\ JobOf(jobStore[d], id).lastRunAt # Undefined
        /\ Cardinality(Armed(activeJobs[d], id)) = 1
        /\ \A t \in Armed(activeJobs[d], id) : t.next > now

\* C33: while a scheduler runs, the jobs of its store are the jobs with an
\* armed timer, and a job whose timer could not be armed is not on file.
C33_StoreMatchesTimers ==
    \A d \in Daemons :
        booted[d] = "up" =>
            /\ {jobStore[d][i].id : i \in DOMAIN jobStore[d]}
                  = {t.id : t \in activeJobs[d]}
            /\ \A i \in DOMAIN jobsFile.jobs : Valid(jobsFile.jobs[i].cronExpr)

\* C26: after every completed mutation of the scheduler (addJob, removeJob,
\* the fire of a job) and after initScheduler, the persisted store holds
\* exactly the jobs listJobs() returns, with the same field values,
\* nextRunAt and lastRunAt included.
C26_StoreMirrorsMemory ==
    [][\A d \in Daemons :
          (Boot(d) \/ AddJob(d) \/ RemoveJob(d) \/ Fire(d))
              => loadJobs(jobsFile') = jobStore'[d]]_vars

\* The type and session of each request of a sequence, in order.
Headers(reqs) ==
    [i \in 1..Len(reqs) |-> <<reqs[i].kind, reqs[i].sessionId>>]

\* C27: on a connection, requests are dispatched in the order in which their
\* terminating newlines arrive, also when several complete lines arrive in
\* one data event and when an earlier request is still being handled.
C27_DispatchedInArrivalOrder ==
    \A c \in Conns :
        Headers(dispatched[c]) = Headers(DispatchOf(CompleteLines(c)))

\* A chat is still waiting for its agent call while the command that came
\* after it on the same connection has been dispatched.
C27_Witness ==
    \E c \in Conns :
        /\ Len(dispatched[c]) >= 2
        /\ dispatched[c][1].kind = "chat"
        /\ dispatched[c][2].kind = "command"
        /\ \E h \in pending : h.conn = c /\ h.req = 1 /\ h.at = "runAgent"

\* C28: of two messages of one sender that the router records in the
\* transcript, the one that arrived at the router first has its user record
\* earlier; stated for two requests of one connection, which arrive in the
\* order of their request numbers.
C28_RecordsInArrivalOrder ==
    \A i \in 1..Len(transcript), j \in 1..Len(transcript) :
        ( /\ i < j
          /\ transcript[i].conn = transcript[j].conn
          /\ transcript[i].sender = transcript[j].sender )
            => transcript[i].req < transcript[j].req

(***************************************************************************)
(* /schedule (router.ts handleCommand, tryParseSchedule; scheduler.ts      *)
(* parseTimeToJob).  The argument is a sequence of words; a word is        *)
(* [word, num]: a numeral carries its value, any other word carries -1.    *)
(* An hour has one minute, a day has Day hours, and the day and month      *)
(* fields of a cron expression name an instant's place in its year, so a   *)
(* one-shot expression built from a target instant matches the instants    *)
(* that are a whole number of years from the target.                       *)
(***************************************************************************)
W(w) == [word |-> w, num |-> -1]
N(n) == [word |-> "#", num |-> n]
IsNumeral(w) == w.word = "#"

\* What parseTimeToJob returns: null, or a job without id
NoJob == [parsed |-> FALSE, cronExpr |-> [period |-> 0, phase |-> 0],
          oneShot |-> FALSE]
ParsedJob(expr, oneShot) ==
    [parsed |-> TRUE, cronExpr |-> expr, oneShot |-> oneShot]

\* "in X minutes": minute hour day month of Date.now() + X minutes
inMinutes(mins, t) == ParsedJob([period |-> Year, phase |-> (t + mins) % Year], TRUE)

\* "at H": today at H, tomorrow at H when that has passed; the hour field is
\* the number typed, the day and month are the target's
atHour(hours, t) ==
    LET today == t - (t % Day)
        target == IF today + hours <= t THEN today + hours + Day
                  ELSE today + hours
    IN  ParsedJob(IF hours < Day
                  THEN [period |-> Year, phase |-> target % Year]
                  ELSE [period |-> Year, phase |-> Year],
                  TRUE)

\* "every day at H": minute H * * *
everyDayAt(hours) == ParsedJob([period |-> Day, phase |-> hours], FALSE)

\* "every X hours": 0 */X * * *, the hours of the day that X divides
everyHours(interval) ==
    ParsedJob(IF interval = 0 THEN [period |-> Day, phase |-> Day]
              ELSE IF Day % interval = 0
                   THEN [period |-> interval, phase |-> 0]
                   ELSE [period |-> Day, phase |-> 0],
              FALSE)

\* scheduler.ts parseTimeToJob at instant t
parseTimeToJob(input, t) ==
    IF Len(input) = 3 /\ input[1] = W("in") /\ IsNumeral(input[2])
          /\ input[3] = W("minutes")
    THEN inMinutes(input[2].num, t)
    ELSE IF Len(input) = 2 /\ input[1] = W("at") /\ IsNumeral(input[2])
    THEN atHour(input[2].num, t)
    ELSE IF Len(input) = 1 /\ IsNumeral(input[1])
    THEN atHour(input[1].num, t)
    ELSE IF Len(input) = 4 /\ input[1] = W("every") /\ input[2] = W("day")
               /\ input[3] = W("at") /\ IsNumeral(input[4])
    THEN everyDayAt(input[4].num)
    ELSE IF Len(input) = 3 /\ input[1] = W("every") /\ IsNumeral(input[2])
               /\ input[3] = W("hours")
    THEN everyHours(input[2].num)
    ELSE NoJob

\* router.ts tryParseSchedule: the longest prefix of at most i words that
\* parseTimeToJob takes
RECURSIVE tryPrefix(_, _, _)
tryPrefix(words, i, t) ==
    IF i < 1 THEN NoJob
    ELSE LET parsed == parseTimeToJob(SubSeq(words, 1, i), t)
         IN  IF parsed.parsed THEN parsed ELSE tryPrefix(words, i - 1, t)

tryParseSchedule(words, t) ==
    tryPrefix(words, IF Len(words) < 6 THEN Len(words) ELSE 6, t)

\* router.ts handleCommand, case "/schedule", at instant t with fresh id
\* uuid: the scheduler state it leaves, its reply, and whether it threw
schedule(sc, words, sender, uuid, t) ==
    IF words = <<>>
    THEN [sc |-> sc, reply |-> "Usage", added |-> FALSE]
    ELSE LET parsed == tryParseSchedule(words, t)
         IN  IF ~parsed.parsed
             THEN [sc |-> sc, reply |-> "Couldn't parse time", added |-> FALSE]
             ELSE LET sc1 == addJob(sc, [id |-> uuid,
                                         cronExpr |-> parsed.cronExpr,
                                         oneShot |-> parsed.oneShot,
                                         sender |-> sender,
                                         nextRunAt |-> Undefined,
                                         lastRunAt |-> Undefined], t)
                  IN  [sc |-> sc1,
                       reply |-> IF sc1.threw THEN "throws" ELSE "Scheduled",
                       added |-> TRUE]

\* What a user may type after /schedule.
Other == W("x")
ScheduleArgs ==
    { <<>>,
      <<Other>>,
      <<W("in"), N(1), W("minutes"), Other>>,
      <<W("in"), N(Year + 1), W("minutes")>>,
      <<W("in"), Other, W("minutes")>>,
      <<W("at"), N(1), Other>>,
      <<W("at"), N(Day), Other>>,
      <<N(0), W("minutes")>>,
      <<W("every"), W("day"), W("at"), N(0)>>,
      <<W("every"), W("day"), W("at"), N(Day)>>,
      <<W("every"), N(1), W("hours")>>,
      <<W("every"), N(0), W("hours")>> }

\* /schedule <words> typed to process d
ScheduleWords(d, words) ==
    /\ booted[d] = "up"
    /\ nextUuid <= MaxJobs
    /\ \E sender \in Senders :
          LET r == schedule(Scheduler(d), words, sender, nextUuid, now)
          IN  /\ SetScheduler(d, r.sc)
              /\ nextUuid' = IF r.added THEN nextUuid + 1 ELSE nextUuid
    /\ UNCHANGED <<now, booted, agentRuns, invoked>>

Schedule(d) == \E words \in ScheduleArgs : ScheduleWords(d, words)

\* The /schedule arguments that say "in N minutes" with N >= 1.
InMinutesArgs ==
    {words \in ScheduleArgs :
        /\ Len(words) >= 3
        /\ words[1] = W("in") /\ IsNumeral(words[2]) /\ words[2].num >= 1
        /\ words[3] = W("minutes")}

\* C21: for every N >= 1 and every instant T, scheduling "in N minutes" at T
\* gives a one-shot job whose nextRunAt, as addJob returns it, is T + N
\* minutes.
C21_InMinutesNextRunAt ==
    [][\A d \in Daemons, words \in InMinutesArgs :
          ScheduleWords(d, words)
              => LET job == jobStore'[d][Len(jobStore'[d])]
                 IN  /\ Len(jobStore'[d]) = Len(jobStore[d]) + 1
                     /\ job.oneShot
                     /\ job.nextRunAt = now + words[2].num]_vars

\* The hour a time spec names, when it names one, is an hour of the day.
HourInRange(input) ==
    IF input # <<>> /\ IsNumeral(input[Len(input)])
          /\ (Len(input) \in {1, 2, 4})
    THEN input[Len(input)].num < Day
    ELSE TRUE

\* No prefix of the words is a recognised time spec with in-range values.
Unparseable(words, t) ==
    \A i \in 1..Len(words) :
        i <= 6 => ~( /\ parseTimeToJob(SubSeq(words, 1, i), t).parsed
                     /\ HourInRange(SubSeq(words, 1, i)) )

\* C22: a /schedule request whose time spec is unparseable (no prefix of its
\* words is a recognised spec with in-range values) gets a usage reply, no
\* exception is raised, and no job is added: the in-memory list, the timers
\* and the persisted store are unchanged.
C22_UnparseableAddsNothing ==
    [][\A d \in Daemons, words \in ScheduleArgs :
          (Unparseable(words, now) /\ ScheduleWords(d, words))
              => /\ \A sender \in Senders :
                       schedule(Scheduler(d), words, sender, nextUuid, now).reply
                           \in {"Usage", "Couldn't parse time"}
                 /\ jobStore' = jobStore
                 /\ activeJobs' = activeJobs
                 /\ jobsFile' = jobsFile]_vars

(***************************************************************************)
(* Pushes to terminal sessions (daemon/server.ts sendToTerminalSession).   *)
(* The function is exported; the daemon server runs as before and a caller *)
(* pushes a text to a session between two events.                          *)
(***************************************************************************)
\* Pushes in a run.
MaxPushes == 1

\* The lines of the clients: a chat of session 1, a command of session 2.
PushLines ==
    { <<"{", "c", "1", "a", "}">>,
      <<"{", "m", "2", "R", "}">> }

\* A connection of sv is in the clients map.
InClients(sv, c) == sv.clients[c] # None

\* Mutant: the push goes to every connection of the clients map.
sendToTerminalSession_Broadcast(sv, sessionId, text) ==
    LET RECURSIVE loop(_, _)
        loop(st, cs) ==
            IF cs = {} THEN st
            ELSE LET c == CHOOSE c \in cs : TRUE
                 IN  loop(IF InClients(sv, c)
                          THEN [sv |-> write(st.sv, c,
                                             Response(0, "chat_response",
                                                      sessionId, text)),
                                sent |-> TRUE]
                          ELSE st,
                          cs \ {c})
    IN  loop([sv |-> sv, sent |-> FALSE], Conns)

\* server.ts sendToTerminalSession: the state it leaves, and its result
sendToTerminalSession(sv, sessionId, text) ==
    LET RECURSIVE loop(_, _)
        loop(st, cs) ==
            IF cs = {} THEN st
            ELSE LET c == CHOOSE c \in cs : TRUE
                 IN  loop(IF InClients(sv, c) /\ sv.clients[c] = sessionId
                          THEN [sv |-> write(st.sv, c,
                                             Response(0, "chat_response",
                                                      sessionId, text)),
                                sent |-> TRUE]
                          ELSE st,
                          cs \ {c})
    IN  loop([sv |-> sv, sent |-> FALSE], Conns)

PushInit ==
    /\ daemonUp = TRUE
    /\ connOpen = [c \in Conns |-> TRUE]
    /\ stream = [c \in Conns |-> <<>>]
    /\ delivered = [c \in Conns |-> 0]
    /\ buffer = [c \in Conns |-> <<>>]
    /\ clients = [c \in Conns |-> None]
    /\ dispatched = [c \in Conns |-> <<>>]
    /\ outbox = [c \in Conns |-> <<>>]
    /\ microtasks = <<>>
    /\ pending = {}
    /\ transcript = <<>>
    /\ vocabulary = PushLines
    /\ pushes = <<>>

\* A caller pushes a text to session sid.
Push(sid) ==
    /\ daemonUp /\ microtasks = <<>>
    /\ Len(pushes) < MaxPushes
    /\ LET r == sendToTerminalSession(ServerState, sid, "pushed")
       IN  /\ SetServerState(r.sv)
           /\ pushes' = Append(pushes, [sessionId |-> sid, sent |-> r.sent])
    /\ UNCHANGED <<daemonUp, stream, delivered, buffer, vocabulary>>

\* The sessionId of the most recent chat or command of a connection's
\* requests, None when it has sent none.
RECURSIVE MostRecentSid(_)
MostRecentSid(reqs) ==
    IF reqs = <<>> THEN None
    ELSE IF reqs[Len(reqs)].kind \in {"chat", "command"}
         THEN reqs[Len(reqs)].sessionId
         ELSE MostRecentSid(SubSeq(reqs, 1, Len(reqs) - 1))

\* The open connections whose most recent chat or command carried sid.
Registered(sid) ==
    {c \in Conns : connOpen[c] /\ MostRecentSid(dispatched[c]) = sid}

\* C19: a push for session S is written to exactly the open connections
\* whose most recent chat or command carried S, to all of them and to no
\* other; when none matches it writes nothing, queues nothing and reports
\* that nothing was sent; a closed connection never receives a push.
C19_PushRouting ==
    [][\A sid \in SidChars :
          Push(sid)
              => /\ \A c \in Registered(sid) :
                       outbox'[c]
                           = Append(outbox[c],
                                    Response(0, "chat_response", sid,
                                             "pushed"))
                 /\ \A c \in Conns \ Registered(sid) : outbox'[c] = outbox[c]
                 /\ pushes'[Len(pushes')].sent = (Registered(sid) # {})
                 /\ microtasks' = microtasks
                 /\ pending' = pending]_vars

\* A push has reached the one connection registered under its session while
\* the other connection was registered under another session; and a push
\* found no connection.
C19_Witness ==
    /\ pushes # <<>>
    /\ pushes[1].sent
    /\ \E c \in Conns, o \in Conns :
          /\ c # o
          /\ connOpen[c] /\ clients[c] = pushes[1].sessionId
          /\ connOpen[o] /\ clients[o] \notin {None, pushes[1].sessionId}
          /\ \E i \in DOMAIN outbox[c] : outbox[c][i].text = "pushed"

\* The responses written: <<c, i>> is response i of connection c.
Answers == UNION {{<<c, i>> : i \in DOMAIN outbox[c]} : c \in Conns}

\* The request response i of connection c answers.
RequestOf(c, i) == dispatched[c][outbox[c][i].req]

\* What ping, status and command are answered by.
OtherTypesAnswered(c, i) ==
    LET m == outbox[c][i]
        q == RequestOf(c, i)
    IN  /\ q.kind = "ping" => m.type = "pong"
        /\ q.kind = "status" => m.type = "status_response"
        /\ q.kind = "command" => m.type \in {"command_response", "error"}

\* C20 as stated: every response to a chat request is a chat_response with
\* the request's sessionId and done true; ping is answered by pong, status by
\* status_response, command by command_response or, when handling fails, by
\* error.
C20_ChatAnsweredByChatResponse ==
    \A a \in Answers :
        LET m == outbox[a[1]][a[2]]
            q == RequestOf(a[1], a[2])
        IN  /\ q.kind = "chat"
                  => /\ m.type = "chat_response"
                     /\ m.sessionId = q.sessionId
                     /\ m.done
            /\ OtherTypesAnswered(a[1], a[2])

\* C20, amended: every response to a chat request is a chat_response with
\* the request's sessionId and done true, or an error when handling fails;
\* ping is answered by pong, status by status_response, command by
\* command_response or, when handling fails, by error.
C20_ChatAnsweredOrError ==
    \A a \in Answers :
        LET m == outbox[a[1]][a[2]]
            q == RequestOf(a[1], a[2])
        IN  /\ q.kind = "chat"
                  => \/ /\ m.type = "chat_response"
                        /\ m.sessionId = q.sessionId
                        /\ m.done
                     \/ m.type = "error"
            /\ OtherTypesAnswered(a[1], a[2])

\* One chat has been answered by a chat_response of its session, another by
\* an error.
C20_Witness ==
    /\ \E a \in Answers :
          /\ RequestOf(a[1], a[2]).kind = "chat"
          /\ outbox[a[1]][a[2]].type = "chat_response"
          /\ outbox[a[1]][a[2]].sessionId = RequestOf(a[1], a[2]).sessionId
    /\ \E a \in Answers :
          /\ RequestOf(a[1], a[2]).kind = "chat"
          /\ outbox[a[1]][a[2]].type = "error"

\* C37: what the server writes in answer to a chat or command is written to
\* the connection the request arrived on and to no other: every
\* chat_response and command_response in a connection's outbox answers a
\* request that was dispatched from that connection, a chat_response a chat
\* with the same sessionId, a command_response a command.
C37_AnsweredOnItsOwnConnection ==
    \A c \in Conns :
        \A i \in DOMAIN outbox[c] :
            LET m == outbox[c][i]
            IN  m.type \in {"chat_response", "command_response"}
                    => /\ m.req \in DOMAIN dispatched[c]
                       /\ m.type = "chat_response"
                              => /\ dispatched[c][m.req].kind = "chat"
                                 /\ dispatched[c][m.req].sessionId = m.sessionId
                       /\ m.type = "command_response"
                              => dispatched[c][m.req].kind = "command"

\* Two connected clients have each sent one chat, and each has been answered
\* once, on its own connection.
C37_Witness ==
    \E c, o \in Conns :
        /\ c # o
        /\ Len(dispatched[c]) = 1 /\ Len(dispatched[o]) = 1
        /\ dispatched[c][1].kind = "chat" /\ dispatched[o][1].kind = "chat"
        /\ Len(outbox[c]) = 1 /\ outbox[c][1].type = "chat_response"
        /\ Len(outbox[o]) = 1 /\ outbox[o][1].type = "chat_response"

\* C36: the shutdown hook of daemon p removes the socket file and the PID
\* file only when they are its own: files of another daemon that is alive
\* are left in place.
C36_RemovesOnlyOwnFiles ==
    [][\A p \in DaemonPids :
          /\ (proc[p] = "signalled" /\ proc'[p] = "stopping"
                 /\ sockFile \in Alive \ {p}) => sockFile' = sockFile
          /\ (proc[p] = "stopping" /\ proc'[p] = "pidRemoved"
                 /\ \E q \in Alive \ {p} : pidFile = String(q))
                => pidFile' = pidFile
      ]_vars

(***************************************************************************)
(* nakedclaw start in a state directory an unclean shutdown left behind.   *)
(***************************************************************************)
\* What an unclean shutdown leaves and a later start() finds, no daemon being
\* alive: no PID file, one cut short, one naming a process that is gone
\* (pid 9, or a pid the next daemon will be given), or one naming a pid the
\* system has since given to another process; with or without the socket
\* file of the daemon that died.
StaleInit ==
    /\ cli = [k \in Clis |-> IdleCli]
    /\ pidFile \in {NoFile, <<"x">>, <<"9">>, <<"9", LF>>, String(1),
                    String(MaxDaemons)}
    /\ sockFile \in {0, 9}
    /\ proc \in {[p \in DaemonPids |-> "unborn"],
                 [p \in DaemonPids |->
                     IF p = MaxDaemons THEN "foreign" ELSE "unborn"]}

\* The operator runs nakedclaw start, once.
InvokeStart(k) ==
    /\ \A j \in Clis : cli[j].cmd = "none"
    /\ cli' = [cli EXCEPT ![k].cmd = "start", ![k].pc = "start"]
    /\ UNCHANGED <<pidFile, sockFile, proc>>

\* An operator runs nakedclaw start in a terminal where no command is running.
RunStart(k) ==
    /\ cli[k].pc = "idle"
    /\ cli' = [cli EXCEPT ![k].cmd = "start", ![k].pc = "start"]
    /\ UNCHANGED <<pidFile, sockFile, proc>>

\* Daemon p is up: the PID file holds its pid, the socket file is the one it
\* bound, and isDaemonRunning() reports it.
DaemonUp(p) ==
    /\ proc[p] = "running"
    /\ pidFile = String(p)
    /\ sockFile = p
    /\ isDaemonRunning(pidFile, Alive) =
          [running |-> TRUE, pid |-> p, file |-> pidFile]

\* C29: when start() is called while no daemon is alive, whatever PID file
\* and socket file were left behind, a daemon comes up whose pid the PID file
\* holds, which bound the socket anew, and which isRunning() reports.
C29_StartReplacesStaleFiles ==
    (\E k \in Clis : cli[k].pc = "start") ~> (\E p \in DaemonPids : DaemonUp(p))

(***************************************************************************)
(* The interactive client, cli/connect.ts: a REPL on one connection.       *)
(* The operator's lines and the socket's data events are handled one at a  *)
(* time, in any order.  /quit and empty lines are left out: they touch     *)
(* neither the socket nor waitingForResponse.                              *)
(***************************************************************************)
MaxTyped == 4

\* What the operator types: chat text, a command with one reply, /skills
\* install <name>, or the local /help.
Inputs == {"chat", "command", "install", "help"}

\* The responses the daemon writes for one request.  router.ts handleCommand
\* replies twice to /skills install: "Installing ..." before the installer
\* runs, "Installed ..." or "Failed: ..." after it.
Responses(input) == IF input = "install" THEN 2 ELSE 1

\* connect.ts main, lines 116-166: one turn of the REPL loop.
Type(input) ==
    /\ typed < MaxTyped
    /\ typed' = typed + 1
    /\ IF input = "help"
       THEN /\ screen' = Append(screen, "help")
            /\ UNCHANGED <<waitingForResponse, written, owed, got>>
       ELSE IF waitingForResponse
       THEN /\ screen' = Append(screen, "waiting")
            /\ UNCHANGED <<waitingForResponse, written, owed, got>>
       ELSE /\ written' = Append(written, input)
            /\ owed' = Append(owed, Responses(input))
            /\ got' = Append(got, 0)
            /\ screen' = IF input = "chat" THEN Append(screen, "thinking")
                         ELSE screen
            /\ waitingForResponse' = TRUE
    /\ UNCHANGED inflight

\* The daemon writes a response to request i.
Respond(i) ==
    /\ owed[i] > 0
    /\ owed' = [owed EXCEPT ![i] = @ - 1]
    /\ inflight' = Append(inflight, i)
    /\ UNCHANGED <<typed, screen, waitingForResponse, written, got>>

\* connect.ts data handler, lines 47-60, and handleServerMessage, lines
\* 74-112: a data event brings the next n messages; every message type
\* resets waitingForResponse.
ReplData(n) ==
    /\ n \in 1..Len(inflight)
    /\ got' = [i \in DOMAIN got |->
                  got[i] + Cardinality({j \in 1..n : inflight[j] = i})]
    /\ inflight' = SubSeq(inflight, n + 1, Len(inflight))
    /\ waitingForResponse' = FALSE
    /\ UNCHANGED <<typed, screen, written, owed>>

ReplInit ==
    /\ typed = 0
    /\ screen = <<>>
    /\ waitingForResponse = FALSE
    /\ written = <<>>
    /\ owed = <<>>
    /\ inflight = <<>>
    /\ got = <<>>

\* C23: the client writes a request only when every request it wrote before
\* has been answered; the messages the daemon sends meanwhile do not change
\* that.
C23_OneRequestAtATime ==
    [][Len(written') > Len(written) =>
          \A i \in 1..Len(written) : got[i] > 0]_vars

(***************************************************************************)
(* The allowlist of the channel adapters, channels/telegram.ts,            *)
(* channels/whatsapp.ts and channels/slack.ts.  A string is the sequence   *)
(* of its characters; "@s" stands for "@s.whatsapp.net".                   *)
(***************************************************************************)
MaxId == 2

Channels == {"telegram", "whatsapp", "slack"}

\* String.prototype.includes: sub occurs somewhere in s
includes(s, sub) ==
    \E i \in 0..(Len(s) - Len(sub)) : SubSeq(s, i + 1, i + Len(sub)) = sub

\* a.replace("+", ""): the first "+" of a is removed
replacePlus(a) ==
    IF \E i \in DOMAIN a : a[i] = "+"
    THEN LET i == CHOOSE i \in DOMAIN a :
                     a[i] = "+" /\ \A j \in 1..(i - 1) : a[j] # "+"
         IN  SubSeq(a, 1, i - 1) \o SubSeq(a, i + 1, Len(a))
    ELSE a

\* Array.prototype.includes: x is an element of list
listIncludes(list, x) == \E i \in DOMAIN list : list[i] = x

\* telegram.ts, lines 55-57: "@" and the username, or the numeric id
telegramSender(from) ==
    IF from.username # <<>> THEN <<"@">> \o from.username ELSE String(from.id)

\* telegram.ts, lines 60-65, and slack.ts, lines 28-30: the sender passes
exactPasses(list, sender) ==
    ~(Len(list) > 0 /\ ~listIncludes(list, sender))

\* whatsapp.ts, lines 206-211: the sender passes
whatsappPasses(list, sender) ==
    ~(Len(list) > 0
        /\ ~\E i \in DOMAIN list : includes(sender, replacePlus(list[i])))

\* What the adapters are configured with.
TelegramLists == {<<>>, << <<"@", "a">> >>, << <<"1">> >>,
                  << <<"@", "a">>, <<"2">> >>}
WhatsAppLists == {<<>>, << <<"+", "1", "2">> >>, << <<"4", "5">> >>}
SlackLists == {<<>>, << <<"U", "1">> >>}

\* Who writes to the bot: Telegram users with or without a username,
\* WhatsApp numbers 12, 312 and 45, Slack users U1 and U2.
TelegramFroms == [username : {<<>>, <<"a">>, <<"b">>}, id : 1..MaxId]
WhatsAppJids == {<<"1", "2", "@s">>, <<"3", "1", "2", "@s">>,
                 <<"4", "5", "@s">>}
SlackUsers == {<<"U", "1">>, <<"U", "2">>}

ChanInit ==
    /\ allowFrom \in [Channels -> TelegramLists \cup WhatsAppLists \cup SlackLists]
    /\ allowFrom["telegram"] \in TelegramLists
    /\ allowFrom["whatsapp"] \in WhatsAppLists
    /\ allowFrom["slack"] \in SlackLists
    /\ routed = {}
    /\ refused = {}

\* The adapter hands the message to the handler, or returns.
Route(ch, sender, passes) ==
    /\ routed' = IF passes THEN routed \cup {[channel |-> ch, sender |-> sender]}
                 ELSE routed
    /\ refused' = IF passes THEN refused
                  ELSE refused \cup {[channel |-> ch, sender |-> sender]}
    /\ UNCHANGED allowFrom

\* telegram.ts, lines 52-65 and 216: bot.on("message")
telegramMessage(from) ==
    Route("telegram", telegramSender(from),
          exactPasses(allowFrom["telegram"], telegramSender(from)))

\* whatsapp.ts, lines 197-274: one message of messages.upsert that has
\* content and is not the account's own
whatsappMessage(remoteJid) ==
    Route("whatsapp", remoteJid,
          whatsappPasses(allowFrom["whatsapp"], remoteJid))

\* slack.ts, lines 20-46: app.message
slackMessage(user) ==
    Route("slack", user, exactPasses(allowFrom["slack"], user))

\* The sender is one the channel's list names: the entry itself, for
\* WhatsApp the account of the number the entry gives.
Listed(ch, sender) ==
    \E i \in DOMAIN allowFrom[ch] :
        IF ch = "whatsapp"
        THEN sender = replacePlus(allowFrom[ch][i]) \o <<"@s">>
        ELSE sender = allowFrom[ch][i]

\* C24: with a non-empty allowFrom list only messages of listed senders are
\* passed to the handler; with an empty list no message is turned away.
C24_OnlyListedSendersRouted ==
    /\ \A m \in routed :
          allowFrom[m.channel] # <<>> => Listed(m.channel, m.sender)
    /\ \A m \in refused : allowFrom[m.channel] # <<>>

(***************************************************************************)
(* The daemon's shutdown hook, index.ts lines 146-161, on one daemon:      *)
(* process p with the scheduler d and the heartbeat.                       *)
(***************************************************************************)
\* heartbeat.ts startHeartbeat: armed unless config.heartbeat.enabled is off
startHeartbeat(enabled) == enabled

\* heartbeat.ts stopHeartbeat: cronJob.stop(), cronJob = null
stopHeartbeat(hb) == FALSE

\* Mutant: stopScheduler leaves the timers running.
stopScheduler_KeepsTimers(sc) == sc

\* scheduler.ts stopScheduler: every timer is stopped and activeJobs is
\* cleared; the jobs array and jobs.json are not touched.
stopScheduler(sc) == [sc EXCEPT !.active = {}]

\* A daemon that has written its PID file and bound the socket; no jobs yet.
HookInit ==
    /\ cli = [k \in Clis |-> IdleCli]
    /\ pidFile = String(1)
    /\ sockFile = 1
    /\ proc = [q \in DaemonPids |-> IF q = 1 THEN "listening" ELSE "unborn"]
    /\ heartbeat = FALSE
    /\ SchedInit

\* index.ts main, lines 44-161: initScheduler(), startHeartbeat() and the
\* registration of the SIGINT/SIGTERM handlers.
mainRest(p, d) ==
    /\ registerShutdown(p)
    /\ Boot(d)
    /\ \E enabled \in BOOLEAN : heartbeat' = startHeartbeat(enabled)

\* A /schedule request reaches the running daemon.
HookAddJob(p, d) ==
    /\ proc[p] = "running"
    /\ AddJob(d)
    /\ UNCHANGED <<lifeVars, heartbeat>>

\* SIGTERM or SIGINT is delivered to the daemon.
Signal(p) ==
    /\ proc[p] = "running"
    /\ proc' = SIGTERM(proc, p)
    /\ UNCHANGED <<pidFile, sockFile, cli>>

\* index.ts shutdown, lines 147-150: daemonServer.stop(), stopHeartbeat(),
\* stopScheduler(), up to the first await.
shutdownHook(p, d) ==
    /\ shutdown(p)
    /\ heartbeat' = stopHeartbeat(heartbeat)
    /\ SetScheduler(d, stopScheduler(Scheduler(d)))
    /\ UNCHANGED <<now, booted, nextUuid, agentRuns, invoked>>

\* index.ts shutdown, line 157: process.exit(0) ends the process and what
\* it held in memory.
hookExit(p, d) ==
    /\ shutdownExit(p)
    /\ Shutdown(d)
    /\ UNCHANGED heartbeat

InHook(st) == st \in {"signalled", "stopping", "pidRemoved"}

MaxMsgs == 3

UserRole == "u"
AssistantRole == "as"

TextOf(id) == String(id)

UserRecord(id) == [role |-> UserRole, content |-> TextOf(id)]
AssistantRecord(id) == [role |-> AssistantRole, content |-> TextOf(id)]

\* The session key of the heartbeat, index.ts line 62.  No code appends to
\* this session: its log never exists.
HeartbeatKey == "heartbeat:system"

\* agent.ts runAgent, line 31: getMessages(sessionKey)
history(files, key, turns) ==
    IF key \in SessionKeys THEN getMessages(files, key, turns) ELSE <<>>

\* agent.ts historyToApiMessages: the user and assistant records of the
\* history, then the current message
historyToApiMessages(hist, currentMessage) ==
    SelectSeq(hist, LAMBDA h : h.role \in {UserRole, AssistantRole})
        \o <<[role |-> UserRole, content |-> currentMessage]>>

Call(key, kind, at) ==
    [key |-> key, kind |-> kind, at |-> at, messages |-> <<>>]

RouterInit ==
    /\ SessionInit
    /\ arrivals = 0
    /\ calls = <<>>

\* router.ts handleMessage, lines 27-54, for a text that is no command: the
\* user record is appended and runAgent runs to its first await.
ReceiveChat(key) ==
    /\ arrivals < MaxMsgs
    /\ arrivals' = arrivals + 1
    /\ sessionFile' = appendMessage(sessionFile, key, UserRecord(arrivals + 1))
    /\ calls' = Append(calls, Call(key, "chat", "apiKey"))
    /\ UNCHANGED <<maxTurns, appended, clears>>

\* router.ts handleMessage and handleCommand, lines 37-39 and 82-86, for
\* /reset: the session is cleared and "Session cleared." is written.
ReceiveReset(key) ==
    /\ arrivals < MaxMsgs
    /\ arrivals' = arrivals + 1
    /\ sessionFile' = clearSession(sessionFile, key).files
    /\ calls' = Append(calls, Call(key, "reset", "done"))
    /\ UNCHANGED <<maxTurns, appended, clears>>

\* index.ts main, lines 47-57: the job callback calls runAgent with the
\* session key of the job's channel and sender.
JobCallback(key) ==
    /\ arrivals < MaxMsgs
    /\ arrivals' = arrivals + 1
    /\ calls' = Append(calls, Call(key, "job", "apiKey"))
    /\ UNCHANGED sessionVars

\* index.ts main, lines 60-68: the heartbeat callback calls runAgent.
HeartbeatCallback ==
    /\ arrivals < MaxMsgs
    /\ arrivals' = arrivals + 1
    /\ calls' = Append(calls, Call(HeartbeatKey, "beat", "apiKey"))
    /\ UNCHANGED sessionVars

\* agent.ts runAgent, lines 25-43: after the await of the API key the
\* history is read and the messages for the model are built.
RunAgentRead(id) ==
    /\ calls[id].at = "apiKey"
    /\ calls' = [calls EXCEPT
          ![id].at = "model",
          ![id].messages =
              historyToApiMessages(history(sessionFile, calls[id].key, maxTurns),
                                   TextOf(id))]
    /\ UNCHANGED <<arrivals, sessionVars>>

\* runAgent returns or throws.  router.ts handleMessage, lines 56-69,
\* appends the assistant record and replies, or replies with the error;
\* the callbacks of index.ts write the result to console.log.
RunAgentReturn(id) ==
    /\ calls[id].at = "model"
    /\ \E ok \in BOOLEAN :
          /\ calls' = [calls EXCEPT ![id].at = IF ok THEN "done" ELSE "failed"]
          /\ sessionFile' =
                IF ok /\ calls[id].kind = "chat"
                THEN appendMessage(sessionFile, calls[id].key,
                                   AssistantRecord(id))
                ELSE sessionFile
    /\ UNCHANGED <<arrivals, maxTurns, appended, clears>>

\* Every record of a session's log, in file order.
Transcript(files, key) == history(files, key, MaxMsgs)

\* The message a record belongs to.
IdOf(m) == parseInt(m.content).val

\* C31: once /reset is answered, getMessages gives no record of a message
\* that arrived before it, an in-flight chat of the session included.
C31_NothingOlderThanReset ==
    \A r \in DOMAIN calls :
        calls[r].kind = "reset" =>
            LET read == getMessages(sessionFile, calls[r].key, maxTurns)
            IN  \A i \in DOMAIN read : IdOf(read[i]) > r

\* C32: when the agent has answered a job firing or a beat, the session
\* log holds the fired message as a user record and the answer as the
\* assistant record after it, as for a chat request.
C32_FiringsRecordedLikeChats ==
    [][\A id \in DOMAIN calls :
          (calls[id].kind \in {"job", "beat"}
              /\ calls[id].at = "model" /\ calls'[id].at = "done") =>
             LET log == Transcript(sessionFile', calls[id].key)
             IN  \E i \in DOMAIN log :
                    /\ log[i] = AssistantRecord(id)
                    /\ i > 1 /\ log[i - 1] = UserRecord(id)
      ]_vars

\* C34: the messages sent to the model for a chat request hold the
\* current user message exactly once.
C34_CurrentMessageOnce ==
    \A id \in DOMAIN calls :
        (calls[id].kind = "chat" /\ calls[id].messages # <<>>) =>
            Cardinality({i \in DOMAIN calls[id].messages :
                            calls[id].messages[i] = UserRecord(id)}) = 1

\* C35: in every session log each assistant record comes right after the
\* user record of the message it answers.
C35_AssistantFollowsItsUser ==
    \A key \in SessionKeys :
        LET log == Transcript(sessionFile, key)
        IN  \A i \in DOMAIN log :
               log[i].role = AssistantRole =>
                  i > 1 /\ log[i - 1] = UserRecord(IdOf(log[i]))

(***************************************************************************)
(* The heartbeat (scheduler/heartbeat.ts).  heartbeat is true while cronJob *)
(* holds an armed Cron; isRunning is the module's flag.  beats has one      *)
(* entry per beat that came due: what became of it (did) and whether        *)
(* another beat was in progress at that moment (busy); a config reload      *)
(* leaves an entry "reloaded" in it as well.  beating lists the             *)
(* callback invocations that are between "isRunning = true" and the end of  *)
(* their finally block, each with the await it is suspended at.             *)
(***************************************************************************)
\* Beats that come due and config reloads in one run.
MaxBeats == 4

BeatState == [isRunning |-> isRunning, beating |-> beating, beats |-> beats]

SetBeatState(b) ==
    /\ isRunning' = b.isRunning
    /\ beating' = b.beating
    /\ beats' = b.beats

\* Mutant: the callback does not look at isRunning.
beat_Unguarded(b) ==
    [b EXCEPT !.isRunning = TRUE,
              !.beating = Append(@, [no |-> Len(b.beats) + 1,
                                     at |-> "loadHeartbeatPrompt"]),
              !.beats = Append(@, [did |-> "running",
                                   busy |-> b.beating # <<>>])]

\* heartbeat.ts lines 29-39, the Cron callback up to its first await.
beat(b) ==
    IF b.isRunning
    THEN [b EXCEPT !.beats = Append(@, [did |-> "skipped",
                                        busy |-> b.beating # <<>>])]
    ELSE [b EXCEPT !.isRunning = TRUE,
                   !.beating = Append(@, [no |-> Len(b.beats) + 1,
                                          at |-> "loadHeartbeatPrompt"]),
                   !.beats = Append(@, [did |-> "running",
                                        busy |-> b.beating # <<>>])]

Without(seq, i) == SubSeq(seq, 1, i - 1) \o SubSeq(seq, i + 1, Len(seq))

\* heartbeat.ts lines 41-43, the finally block: the beat ends.
finally(b, i, outcome) ==
    [b EXCEPT !.isRunning = FALSE,
              !.beating = Without(@, i),
              !.beats[b.beating[i].no].did = outcome]

\* index.ts main, line 68: startHeartbeat(heartbeatCallback) at boot.
HeartbeatInit ==
    /\ heartbeat \in {startHeartbeat(enabled) : enabled \in BOOLEAN}
    /\ isRunning = FALSE
    /\ beating = <<>>
    /\ beats = <<>>

\* The Cron comes due and runs its callback.
Beat ==
    /\ heartbeat
    /\ Len(beats) < MaxBeats
    /\ SetBeatState(beat(BeatState))
    /\ UNCHANGED heartbeat

\* loadHeartbeatPrompt() returns the prompt, and onBeat is called and awaited,
\* or it throws (heartbeat.ts lines 39-40).
LoadReturn(i) ==
    /\ beating[i].at = "loadHeartbeatPrompt"
    /\ \E ok \in BOOLEAN :
          IF ok
          THEN SetBeatState([BeatState EXCEPT !.beating[i].at = "onBeat"])
          ELSE SetBeatState(finally(BeatState, i, "threw"))
    /\ UNCHANGED heartbeat

\* index.ts heartbeatCallback, lines 60-67, returns: runAgent answered, or it
\* threw and the callback's catch logged the error.
OnBeatReturn(i) ==
    /\ beating[i].at = "onBeat"
    /\ \E outcome \in {"answered", "agent threw"} :
          SetBeatState(finally(BeatState, i, outcome))
    /\ UNCHANGED heartbeat

\* index.ts config watcher, lines 129-140: reloadConfig(), stopHeartbeat(),
\* startHeartbeat(heartbeatCallback).
ConfigReload ==
    /\ \E enabled \in BOOLEAN :
          \* startHeartbeat returns before it touches cronJob when the
          \* heartbeat is disabled: cronJob stays as stopHeartbeat left it
          heartbeat' = IF enabled THEN startHeartbeat(enabled)
                       ELSE stopHeartbeat(heartbeat)
    /\ Len(beats) < MaxBeats
    /\ beats' = Append(beats, [did |-> "reloaded", busy |-> beating # <<>>])
    /\ UNCHANGED <<isRunning, beating>>

\* C38: at most one beat is in progress at any time; the flag is set exactly
\* while a beat is in progress, so it is cleared when the beat ends, whether
\* it succeeded or threw; and a beat that came due while another was in
\* progress was skipped, also when a config reload has replaced the Cron in
\* between, while one that came due when none was in progress was run.
C38_OneBeatAtATime ==
    /\ Len(beating) <= 1
    /\ isRunning <=> beating # <<>>
    /\ \A n \in DOMAIN beats :
          beats[n].did # "reloaded"
              => (beats[n].busy <=> beats[n].did = "skipped")

\* A beat began; while it was in progress the config was reloaded, which
\* stopped the Cron and armed a new one, and a beat of the new Cron came due
\* and was skipped; the first beat has ended by throwing and the flag is
\* cleared.
C38_Witness ==
    /\ Len(beats) >= 3
    /\ beats[1].did \in {"threw", "agent threw"}
    /\ beats[2].did = "reloaded" /\ beats[2].busy
    /\ beats[3].did = "skipped"
    /\ ~isRunning

(***************************************************************************)
(* Session keys (session.ts sessionKeyFromMessage).  A sender is a sequence *)
(* of characters; a key is the channel's name, a colon and the sender's     *)
(* characters after the replacement.  keyed holds, for every message        *)
(* received, its channel, its sender and the key of the transcript file it  *)
(* went to.                                                                 *)
(***************************************************************************)
\* Characters of a sender, and different (channel, sender) pairs in one run.
MaxSenderLen == 2
MaxSenders == 2

\* Of the class [a-zA-Z0-9_@+\-] and outside it.  The interactive client's
\* sessionId is "terminal:" and its pid; the protocol takes any string.
KeptChars == {"a", "1", "_"}
SenderChars == KeptChars \cup {":", "."}
KeyChannels == Channels \cup {"terminal"}

SeqsUpTo(S, n) == UNION {[1..k -> S] : k \in 1..n}

\* sender.replace(/[^a-zA-Z0-9_@+\-]/g, "_")
replaceOthers(sender) ==
    [i \in DOMAIN sender |-> IF sender[i] \in KeptChars THEN sender[i] ELSE "_"]

\* session.ts sessionKeyFromMessage, lines 60-65
sessionKeyFromMessage(channel, sender) ==
    <<channel, ":">> \o replaceOthers(sender)

KeysInit == keyed = {}

\* A message of sender on channel arrives and its session key is computed
\* (router.ts handleMessage, line 31).
KeyMessage(channel, sender) ==
    /\ LET k == [channel |-> channel, sender |-> sender,
                 key |-> sessionKeyFromMessage(channel, sender)]
       IN  /\ Cardinality(keyed) < MaxSenders
           /\ k \notin keyed
           /\ keyed' = keyed \cup {k}

\* C39: two different (channel, sender) pairs never get the same session key.
C39_KeysInjective ==
    \A x, y \in keyed :
        x.key = y.key => x.channel = y.channel /\ x.sender = y.sender

(***************************************************************************)
(* The specifications.                                                     *)
(***************************************************************************)
ServerIdle ==
    /\ daemonUp = TRUE
    /\ connOpen = [c \in Conns |-> FALSE]
    /\ stream = [c \in Conns |-> <<>>]
    /\ delivered = [c \in Conns |-> 0]
    /\ buffer = [c \in Conns |-> <<>>]
    /\ clients = [c \in Conns |-> None]
    /\ dispatched = [c \in Conns |-> <<>>]
    /\ outbox = [c \in Conns |-> <<>>]
    /\ microtasks = <<>>
    /\ pending = {}
    /\ transcript = <<>>
    /\ vocabulary = {}

StatusIdle ==
    /\ stPc = "done"
    /\ settled = FALSE
    /\ timeout = "unset"
    /\ qbuffer = <<>>
    /\ resolved = <<>>
    /\ qsock = "none"
    /\ qwire = <<>>
    /\ qdelivered = 0
    /\ printed = <<>>

SessionIdle ==
    /\ maxTurns = 0
    /\ sessionFile = [key \in SessionKeys |-> NoFile]
    /\ appended = [key \in SessionKeys |-> <<>>]
    /\ clears = [key \in SessionKeys |-> 0]

LifecycleIdle ==
    /\ pidFile = NoFile
    /\ sockFile = 0
    /\ proc = [p \in DaemonPids |-> "unborn"]
    /\ cli = [k \in Clis |-> IdleCli]

SchedIdle ==
    /\ now = 0
    /\ jobsFile = [exists |-> FALSE, jobs |-> <<>>]
    /\ booted = [d \in Daemons |-> "down"]
    /\ jobStore = [d \in Daemons |-> <<>>]
    /\ activeJobs = [d \in Daemons |-> {}]
    /\ nextUuid = 1
    /\ agentRuns = {}
    /\ invoked = [id \in JobIds |-> 0]

PushIdle == pushes = <<>>

HookIdle == heartbeat = FALSE

ReplIdle ==
    /\ typed = 0
    /\ screen = <<>>
    /\ waitingForResponse = FALSE
    /\ written = <<>>
    /\ owed = <<>>
    /\ inflight = <<>>
    /\ got = <<>>

ChanIdle ==
    /\ allowFrom = [ch \in Channels |-> <<>>]
    /\ routed = {}
    /\ refused = {}

RouterIdle ==
    /\ arrivals = 0
    /\ calls = <<>>

BeatIdle ==
    /\ isRunning = FALSE
    /\ beating = <<>>
    /\ beats = <<>>

KeyIdle == keyed = {}

RestIdle ==
    HookIdle /\ ReplIdle /\ ChanIdle /\ RouterIdle /\ BeatIdle /\ KeyIdle

\* The daemon server and its connections.
InitServer ==
    ServerInit /\ LifecycleIdle /\ StatusIdle /\ SessionIdle /\ SchedIdle /\ PushIdle /\ RestIdle
NextServer ==
    \/ \E c \in Conns : ClientWrite(c) /\ UNCHANGED <<lifeVars, statusVars, sessionVars, schedVars, pushVars, hookVars, replVars, chanVars, routerVars, beatVars, keyVars>>
    \/ \E c \in Conns : data(c) /\ UNCHANGED <<lifeVars, statusVars, sessionVars, schedVars, pushVars, hookVars, replVars, chanVars, routerVars, beatVars, keyVars>>
    \/ \E c \in Conns : close(c) /\ UNCHANGED <<lifeVars, statusVars, sessionVars, schedVars, pushVars, hookVars, replVars, chanVars, routerVars, beatVars, keyVars>>
    \/ RunMicrotask /\ UNCHANGED <<lifeVars, statusVars, sessionVars, schedVars, pushVars, hookVars, replVars, chanVars, routerVars, beatVars, keyVars>>
    \/ AgentReturn /\ UNCHANGED <<lifeVars, statusVars, sessionVars, schedVars, pushVars, hookVars, replVars, chanVars, routerVars, beatVars, keyVars>>
    \/ InstallReturn /\ UNCHANGED <<lifeVars, statusVars, sessionVars, schedVars, pushVars, hookVars, replVars, chanVars, routerVars, beatVars, keyVars>>
SpecServer == InitServer /\ [][NextServer]_vars

\* nakedclaw start | stop | restart and the daemon processes.
InitLifecycle ==
    LifecycleInit /\ ServerIdle /\ StatusIdle /\ SessionIdle /\ SchedIdle /\ PushIdle /\ RestIdle
NextLifecycle ==
    \/ \E k \in Clis : Invoke(k) /\ UNCHANGED <<serverVars, statusVars, sessionVars, schedVars, pushVars, hookVars, replVars, chanVars, routerVars, beatVars, keyVars>>
    \/ \E k \in Clis : startDaemon(k) /\ UNCHANGED <<serverVars, statusVars, sessionVars, schedVars, pushVars, hookVars, replVars, chanVars, routerVars, beatVars, keyVars>>
    \/ \E k \in Clis : spawn(k) /\ UNCHANGED <<serverVars, statusVars, sessionVars, schedVars, pushVars, hookVars, replVars, chanVars, routerVars, beatVars, keyVars>>
    \/ \E k \in Clis : startPoll(k) /\ UNCHANGED <<serverVars, statusVars, sessionVars, schedVars, pushVars, hookVars, replVars, chanVars, routerVars, beatVars, keyVars>>
    \/ \E k \in Clis : stopDaemon(k) /\ UNCHANGED <<serverVars, statusVars, sessionVars, schedVars, pushVars, hookVars, replVars, chanVars, routerVars, beatVars, keyVars>>
    \/ \E k \in Clis : stopPoll(k) /\ UNCHANGED <<serverVars, statusVars, sessionVars, schedVars, pushVars, hookVars, replVars, chanVars, routerVars, beatVars, keyVars>>
    \/ \E k \in Clis : stopKill(k) /\ UNCHANGED <<serverVars, statusVars, sessionVars, schedVars, pushVars, hookVars, replVars, chanVars, routerVars, beatVars, keyVars>>
    \/ \E k \in Clis : restartDaemon(k) /\ UNCHANGED <<serverVars, statusVars, sessionVars, schedVars, pushVars, hookVars, replVars, chanVars, routerVars, beatVars, keyVars>>
    \/ \E p \in DaemonPids : writePidFile(p) /\ UNCHANGED <<serverVars, statusVars, sessionVars, schedVars, pushVars, hookVars, replVars, chanVars, routerVars, beatVars, keyVars>>
    \/ \E p \in DaemonPids : startDaemonServer(p) /\ UNCHANGED <<serverVars, statusVars, sessionVars, schedVars, pushVars, hookVars, replVars, chanVars, routerVars, beatVars, keyVars>>
    \/ \E p \in DaemonPids : registerShutdown(p) /\ UNCHANGED <<serverVars, statusVars, sessionVars, schedVars, pushVars, hookVars, replVars, chanVars, routerVars, beatVars, keyVars>>
    \/ \E p \in DaemonPids : shutdown(p) /\ UNCHANGED <<serverVars, statusVars, sessionVars, schedVars, pushVars, hookVars, replVars, chanVars, routerVars, beatVars, keyVars>>
    \/ \E p \in DaemonPids : shutdownUnlinkPid(p) /\ UNCHANGED <<serverVars, statusVars, sessionVars, schedVars, pushVars, hookVars, replVars, chanVars, routerVars, beatVars, keyVars>>
    \/ \E p \in DaemonPids : shutdownExit(p) /\ UNCHANGED <<serverVars, statusVars, sessionVars, schedVars, pushVars, hookVars, replVars, chanVars, routerVars, beatVars, keyVars>>
SpecLifecycle == InitLifecycle /\ [][NextLifecycle]_vars

\* One nakedclaw start after an unclean shutdown.  Every process that can
\* take a step is scheduled in the end.
InitStart ==
    StaleInit /\ ServerIdle /\ StatusIdle /\ SessionIdle /\ SchedIdle /\ PushIdle /\ RestIdle
NextStart ==
    \/ \E k \in Clis : InvokeStart(k) /\ UNCHANGED <<serverVars, statusVars, sessionVars, schedVars, pushVars, hookVars, replVars, chanVars, routerVars, beatVars, keyVars>>
    \/ \E k \in Clis : startDaemon(k) /\ UNCHANGED <<serverVars, statusVars, sessionVars, schedVars, pushVars, hookVars, replVars, chanVars, routerVars, beatVars, keyVars>>
    \/ \E k \in Clis : spawn(k) /\ UNCHANGED <<serverVars, statusVars, sessionVars, schedVars, pushVars, hookVars, replVars, chanVars, routerVars, beatVars, keyVars>>
    \/ \E k \in Clis : startPoll(k) /\ UNCHANGED <<serverVars, statusVars, sessionVars, schedVars, pushVars, hookVars, replVars, chanVars, routerVars, beatVars, keyVars>>
    \/ \E p \in DaemonPids : writePidFile(p) /\ UNCHANGED <<serverVars, statusVars, sessionVars, schedVars, pushVars, hookVars, replVars, chanVars, routerVars, beatVars, keyVars>>
    \/ \E p \in DaemonPids : startDaemonServer(p) /\ UNCHANGED <<serverVars, statusVars, sessionVars, schedVars, pushVars, hookVars, replVars, chanVars, routerVars, beatVars, keyVars>>
    \/ \E p \in DaemonPids : registerShutdown(p) /\ UNCHANGED <<serverVars, statusVars, sessionVars, schedVars, pushVars, hookVars, replVars, chanVars, routerVars, beatVars, keyVars>>
SpecStart == InitStart /\ [][NextStart]_vars /\ WF_vars(NextStart)

\* nakedclaw start, possibly twice at once, and daemons that receive SIGTERM
\* or SIGINT from anywhere (a terminal, the service manager, kill).
InitSignals ==
    StaleInit /\ ServerIdle /\ StatusIdle /\ SessionIdle /\ SchedIdle /\ PushIdle /\ RestIdle
NextSignals ==
    \/ \E k \in Clis : RunStart(k) /\ UNCHANGED <<serverVars, statusVars, sessionVars, schedVars, pushVars, hookVars, replVars, chanVars, routerVars, beatVars, keyVars>>
    \/ \E k \in Clis : startDaemon(k) /\ UNCHANGED <<serverVars, statusVars, sessionVars, schedVars, pushVars, hookVars, replVars, chanVars, routerVars, beatVars, keyVars>>
    \/ \E k \in Clis : spawn(k) /\ UNCHANGED <<serverVars, statusVars, sessionVars, schedVars, pushVars, hookVars, replVars, chanVars, routerVars, beatVars, keyVars>>
    \/ \E k \in Clis : startPoll(k) /\ UNCHANGED <<serverVars, statusVars, sessionVars, schedVars, pushVars, hookVars, replVars, chanVars, routerVars, beatVars, keyVars>>
    \/ \E p \in DaemonPids : writePidFile(p) /\ UNCHANGED <<serverVars, statusVars, sessionVars, schedVars, pushVars, hookVars, replVars, chanVars, routerVars, beatVars, keyVars>>
    \/ \E p \in DaemonPids : startDaemonServer(p) /\ UNCHANGED <<serverVars, statusVars, sessionVars, schedVars, pushVars, hookVars, replVars, chanVars, routerVars, beatVars, keyVars>>
    \/ \E p \in DaemonPids : registerShutdown(p) /\ UNCHANGED <<serverVars, statusVars, sessionVars, schedVars, pushVars, hookVars, replVars, chanVars, routerVars, beatVars, keyVars>>
    \/ \E p \in DaemonPids : Signal(p) /\ UNCHANGED <<serverVars, statusVars, sessionVars, schedVars, pushVars, hookVars, replVars, chanVars, routerVars, beatVars, keyVars>>
    \/ \E p \in DaemonPids : shutdown(p) /\ UNCHANGED <<serverVars, statusVars, sessionVars, schedVars, pushVars, hookVars, replVars, chanVars, routerVars, beatVars, keyVars>>
    \/ \E p \in DaemonPids : shutdownUnlinkPid(p) /\ UNCHANGED <<serverVars, statusVars, sessionVars, schedVars, pushVars, hookVars, replVars, chanVars, routerVars, beatVars, keyVars>>
    \/ \E p \in DaemonPids : shutdownExit(p) /\ UNCHANGED <<serverVars, statusVars, sessionVars, schedVars, pushVars, hookVars, replVars, chanVars, routerVars, beatVars, keyVars>>
SpecSignals == InitSignals /\ [][NextSignals]_vars

\* nakedclaw status.
InitStatus == StatusInit /\ ServerIdle /\ SessionIdle /\ SchedIdle /\ PushIdle /\ RestIdle
NextStatus ==
    \/ showStatus /\ UNCHANGED <<serverVars, pidFile, sockFile, cli, sessionVars, schedVars, pushVars, hookVars, replVars, chanVars, routerVars, beatVars, keyVars>>
    \/ connect /\ UNCHANGED <<serverVars, pidFile, sockFile, cli, sessionVars, schedVars, pushVars, hookVars, replVars, chanVars, routerVars, beatVars, keyVars>>
    \/ statusResponse /\ UNCHANGED <<serverVars, pidFile, sockFile, cli, sessionVars, schedVars, pushVars, hookVars, replVars, chanVars, routerVars, beatVars, keyVars>>
    \/ queryData /\ UNCHANGED <<serverVars, pidFile, sockFile, cli, sessionVars, schedVars, pushVars, hookVars, replVars, chanVars, routerVars, beatVars, keyVars>>
    \/ queryClose /\ UNCHANGED <<serverVars, pidFile, sockFile, cli, sessionVars, schedVars, pushVars, hookVars, replVars, chanVars, routerVars, beatVars, keyVars>>
    \/ queryError /\ UNCHANGED <<serverVars, pidFile, sockFile, cli, sessionVars, schedVars, pushVars, hookVars, replVars, chanVars, routerVars, beatVars, keyVars>>
    \/ queryTimeout /\ UNCHANGED <<serverVars, pidFile, sockFile, cli, sessionVars, schedVars, pushVars, hookVars, replVars, chanVars, routerVars, beatVars, keyVars>>
    \/ showStatusData /\ UNCHANGED <<serverVars, pidFile, sockFile, cli, sessionVars, schedVars, pushVars, hookVars, replVars, chanVars, routerVars, beatVars, keyVars>>
SpecStatus == InitStatus /\ [][NextStatus]_vars

\* The session transcripts.
InitSession ==
    SessionInit /\ ServerIdle /\ LifecycleIdle /\ StatusIdle /\ SchedIdle /\ PushIdle /\ RestIdle
NextSession ==
    \/ \E key \in SessionKeys : AppendMessage(key) /\ UNCHANGED <<serverVars, lifeVars, statusVars, schedVars, pushVars, hookVars, replVars, chanVars, routerVars, beatVars, keyVars>>
    \/ \E key \in SessionKeys : ClearSession(key) /\ UNCHANGED <<serverVars, lifeVars, statusVars, schedVars, pushVars, hookVars, replVars, chanVars, routerVars, beatVars, keyVars>>
SpecSession == InitSession /\ [][NextSession]_vars

\* The scheduler of two daemon processes on one jobs file; a terminal
\* client is registered under session 1, or none is.
InitScheduler ==
    /\ SchedInit /\ LifecycleIdle /\ StatusIdle /\ SessionIdle /\ PushIdle /\ RestIdle
    /\ daemonUp = TRUE
    /\ connOpen \in {[c \in Conns |-> c = "c1"], [c \in Conns |-> FALSE]}
    /\ stream = [c \in Conns |-> <<>>]
    /\ delivered = [c \in Conns |-> 0]
    /\ buffer = [c \in Conns |-> <<>>]
    /\ clients = [c \in Conns |-> IF connOpen[c] THEN "1" ELSE None]
    /\ dispatched = [c \in Conns |-> <<>>]
    /\ outbox = [c \in Conns |-> <<>>]
    /\ microtasks = <<>>
    /\ pending = {}
    /\ transcript = <<>>
    /\ vocabulary = {}

NextScheduler ==
    \/ \E d \in Daemons :
          Boot(d)
            /\ UNCHANGED <<serverVars, lifeVars, statusVars, sessionVars, pushVars, hookVars, replVars, chanVars, routerVars, beatVars, keyVars>>
    \/ \E d \in Daemons :
          AddJob(d)
            /\ UNCHANGED <<serverVars, lifeVars, statusVars, sessionVars, pushVars, hookVars, replVars, chanVars, routerVars, beatVars, keyVars>>
    \/ \E d \in Daemons :
          RemoveJob(d)
            /\ UNCHANGED <<serverVars, lifeVars, statusVars, sessionVars, pushVars, hookVars, replVars, chanVars, routerVars, beatVars, keyVars>>
    \/ \E d \in Daemons :
          Fire(d)
            /\ UNCHANGED <<serverVars, lifeVars, statusVars, sessionVars, pushVars, hookVars, replVars, chanVars, routerVars, beatVars, keyVars>>
    \/ JobResult
          /\ UNCHANGED <<serverVars, lifeVars, statusVars, sessionVars, pushVars, hookVars, replVars, chanVars, routerVars, beatVars, keyVars>>
    \/ \E d \in Daemons :
          Shutdown(d)
            /\ UNCHANGED <<serverVars, lifeVars, statusVars, sessionVars, pushVars, hookVars, replVars, chanVars, routerVars, beatVars, keyVars>>
    \/ Tick /\ UNCHANGED <<serverVars, lifeVars, statusVars, sessionVars, pushVars, hookVars, replVars, chanVars, routerVars, beatVars, keyVars>>

SpecScheduler == InitScheduler /\ [][NextScheduler]_vars

\* The daemon server with a caller of sendToTerminalSession.
InitPush ==
    /\ PushInit /\ LifecycleIdle /\ StatusIdle /\ SessionIdle /\ SchedIdle /\ RestIdle
NextPush ==
    \/ \E c \in Conns :
          ClientWrite(c)
            /\ UNCHANGED <<lifeVars, statusVars, sessionVars, schedVars, pushVars, hookVars, replVars, chanVars, routerVars, beatVars, keyVars>>
    \/ \E c \in Conns :
          data(c)
            /\ UNCHANGED <<lifeVars, statusVars, sessionVars, schedVars, pushVars, hookVars, replVars, chanVars, routerVars, beatVars, keyVars>>
    \/ \E c \in Conns :
          close(c)
            /\ UNCHANGED <<lifeVars, statusVars, sessionVars, schedVars, pushVars, hookVars, replVars, chanVars, routerVars, beatVars, keyVars>>
    \/ RunMicrotask
          /\ UNCHANGED <<lifeVars, statusVars, sessionVars, schedVars, pushVars, hookVars, replVars, chanVars, routerVars, beatVars, keyVars>>
    \/ AgentReturn
          /\ UNCHANGED <<lifeVars, statusVars, sessionVars, schedVars, pushVars, hookVars, replVars, chanVars, routerVars, beatVars, keyVars>>
    \/ \E sid \in SidChars :
          Push(sid) /\ UNCHANGED <<lifeVars, statusVars, sessionVars, schedVars, hookVars, replVars, chanVars, routerVars, beatVars, keyVars>>
SpecPush == InitPush /\ [][NextPush]_vars

\* One daemon process and the /schedule, /cancel commands of its users.
InitSchedule ==
    /\ SchedInit /\ ServerIdle /\ LifecycleIdle /\ StatusIdle /\ SessionIdle
    /\ PushIdle /\ RestIdle
NextSchedule ==
    \/ Boot("d1")
          /\ UNCHANGED <<serverVars, lifeVars, statusVars, sessionVars, pushVars, hookVars, replVars, chanVars, routerVars, beatVars, keyVars>>
    \/ Schedule("d1")
          /\ UNCHANGED <<serverVars, lifeVars, statusVars, sessionVars, pushVars, hookVars, replVars, chanVars, routerVars, beatVars, keyVars>>
    \/ RemoveJob("d1")
          /\ UNCHANGED <<serverVars, lifeVars, statusVars, sessionVars, pushVars, hookVars, replVars, chanVars, routerVars, beatVars, keyVars>>
    \/ Fire("d1")
          /\ UNCHANGED <<serverVars, lifeVars, statusVars, sessionVars, pushVars, hookVars, replVars, chanVars, routerVars, beatVars, keyVars>>
    \/ JobResult
          /\ UNCHANGED <<serverVars, lifeVars, statusVars, sessionVars, pushVars, hookVars, replVars, chanVars, routerVars, beatVars, keyVars>>
    \/ Shutdown("d1")
          /\ UNCHANGED <<serverVars, lifeVars, statusVars, sessionVars, pushVars, hookVars, replVars, chanVars, routerVars, beatVars, keyVars>>
    \/ Tick /\ UNCHANGED <<serverVars, lifeVars, statusVars, sessionVars, pushVars, hookVars, replVars, chanVars, routerVars, beatVars, keyVars>>
SpecSchedule == InitSchedule /\ [][NextSchedule]_vars

\* The interactive client and the daemon that answers it.
InitRepl ==
    /\ ReplInit /\ ServerIdle /\ LifecycleIdle /\ StatusIdle /\ SessionIdle
    /\ SchedIdle /\ PushIdle /\ HookIdle /\ ChanIdle
    /\ RouterIdle /\ BeatIdle /\ KeyIdle
NextRepl ==
    \/ \E input \in Inputs : Type(input) /\ UNCHANGED <<serverVars, lifeVars, statusVars, sessionVars, schedVars, pushVars, hookVars, chanVars, routerVars, beatVars, keyVars>>
    \/ \E i \in DOMAIN owed : Respond(i) /\ UNCHANGED <<serverVars, lifeVars, statusVars, sessionVars, schedVars, pushVars, hookVars, chanVars, routerVars, beatVars, keyVars>>
    \/ \E n \in 1..MaxTyped * 2 : ReplData(n) /\ UNCHANGED <<serverVars, lifeVars, statusVars, sessionVars, schedVars, pushVars, hookVars, chanVars, routerVars, beatVars, keyVars>>
SpecRepl == InitRepl /\ [][NextRepl]_vars

\* The channel adapters and the people who write to the bot.
InitChannels ==
    /\ ChanInit /\ ServerIdle /\ LifecycleIdle /\ StatusIdle /\ SessionIdle
    /\ SchedIdle /\ PushIdle /\ HookIdle /\ ReplIdle
    /\ RouterIdle /\ BeatIdle /\ KeyIdle
NextChannels ==
    \/ \E from \in TelegramFroms : telegramMessage(from) /\ UNCHANGED <<serverVars, lifeVars, statusVars, sessionVars, schedVars, pushVars, hookVars, replVars, routerVars, beatVars, keyVars>>
    \/ \E jid \in WhatsAppJids : whatsappMessage(jid) /\ UNCHANGED <<serverVars, lifeVars, statusVars, sessionVars, schedVars, pushVars, hookVars, replVars, routerVars, beatVars, keyVars>>
    \/ \E user \in SlackUsers : slackMessage(user) /\ UNCHANGED <<serverVars, lifeVars, statusVars, sessionVars, schedVars, pushVars, hookVars, replVars, routerVars, beatVars, keyVars>>
SpecChannels == InitChannels /\ [][NextChannels]_vars

\* One daemon, pid 1 with scheduler d1, from its boot to its exit on a signal.
InitShutdown ==
    /\ HookInit /\ ServerIdle /\ StatusIdle /\ SessionIdle /\ PushIdle
    /\ ReplIdle /\ ChanIdle /\ RouterIdle /\ BeatIdle /\ KeyIdle
NextShutdown ==
    \/ mainRest(1, "d1") /\ UNCHANGED <<serverVars, statusVars, sessionVars, pushVars, replVars, chanVars, routerVars, beatVars, keyVars>>
    \/ HookAddJob(1, "d1") /\ UNCHANGED <<serverVars, statusVars, sessionVars, pushVars, replVars, chanVars, routerVars, beatVars, keyVars>>
    \/ Fire("d1") /\ UNCHANGED <<serverVars, lifeVars, statusVars, sessionVars, pushVars, hookVars, replVars, chanVars, routerVars, beatVars, keyVars>>
    \/ JobResult /\ UNCHANGED <<serverVars, lifeVars, statusVars, sessionVars, pushVars, hookVars, replVars, chanVars, routerVars, beatVars, keyVars>>
    \/ Tick /\ UNCHANGED <<serverVars, lifeVars, statusVars, sessionVars, pushVars, hookVars, replVars, chanVars, routerVars, beatVars, keyVars>>
    \/ Signal(1) /\ UNCHANGED <<serverVars, statusVars, sessionVars, schedVars, pushVars, hookVars, replVars, chanVars, routerVars, beatVars, keyVars>>
    \/ shutdownHook(1, "d1") /\ UNCHANGED <<serverVars, statusVars, sessionVars, pushVars, replVars, chanVars, routerVars, beatVars, keyVars>>
    \/ shutdownUnlinkPid(1) /\ UNCHANGED <<serverVars, statusVars, sessionVars, schedVars, pushVars, hookVars, replVars, chanVars, routerVars, beatVars, keyVars>>
    \/ hookExit(1, "d1") /\ UNCHANGED <<serverVars, statusVars, sessionVars, pushVars, replVars, chanVars, routerVars, beatVars, keyVars>>
SpecShutdown == InitShutdown /\ [][NextShutdown]_vars

\* The router: chat requests, /reset, job firings and beats.
InitRouter ==
    /\ RouterInit /\ ServerIdle /\ LifecycleIdle /\ StatusIdle /\ SchedIdle
    /\ PushIdle /\ HookIdle /\ ReplIdle /\ ChanIdle /\ BeatIdle /\ KeyIdle
NextRouter ==
    \/ \E key \in SessionKeys : ReceiveChat(key) /\ UNCHANGED <<serverVars, lifeVars, statusVars, schedVars, pushVars, hookVars, replVars, chanVars, beatVars, keyVars>>
    \/ \E key \in SessionKeys : ReceiveReset(key) /\ UNCHANGED <<serverVars, lifeVars, statusVars, schedVars, pushVars, hookVars, replVars, chanVars, beatVars, keyVars>>
    \/ \E key \in SessionKeys : JobCallback(key) /\ UNCHANGED <<serverVars, lifeVars, statusVars, schedVars, pushVars, hookVars, replVars, chanVars, beatVars, keyVars>>
    \/ HeartbeatCallback /\ UNCHANGED <<serverVars, lifeVars, statusVars, schedVars, pushVars, hookVars, replVars, chanVars, beatVars, keyVars>>
    \/ \E id \in DOMAIN calls : RunAgentRead(id) /\ UNCHANGED <<serverVars, lifeVars, statusVars, schedVars, pushVars, hookVars, replVars, chanVars, beatVars, keyVars>>
    \/ \E id \in DOMAIN calls : RunAgentReturn(id) /\ UNCHANGED <<serverVars, lifeVars, statusVars, schedVars, pushVars, hookVars, replVars, chanVars, beatVars, keyVars>>
SpecRouter == InitRouter /\ [][NextRouter]_vars

\* The heartbeat and the config watcher.
InitHeartbeat ==
    /\ HeartbeatInit /\ LifecycleIdle /\ ServerIdle /\ StatusIdle /\ SessionIdle /\ SchedIdle
    /\ PushIdle /\ ReplIdle /\ ChanIdle /\ RouterIdle /\ KeyIdle
NextHeartbeat ==
    \/ Beat /\ UNCHANGED <<serverVars, lifeVars, statusVars, sessionVars, schedVars, pushVars, replVars, chanVars, routerVars, keyVars>>
    \/ (\E i \in DOMAIN beating : LoadReturn(i)) /\ UNCHANGED <<serverVars, lifeVars, statusVars, sessionVars, schedVars, pushVars, replVars, chanVars, routerVars, keyVars>>
    \/ (\E i \in DOMAIN beating : OnBeatReturn(i)) /\ UNCHANGED <<serverVars, lifeVars, statusVars, sessionVars, schedVars, pushVars, replVars, chanVars, routerVars, keyVars>>
    \/ ConfigReload /\ UNCHANGED <<serverVars, lifeVars, statusVars, sessionVars, schedVars, pushVars, replVars, chanVars, routerVars, keyVars>>
SpecHeartbeat == InitHeartbeat /\ [][NextHeartbeat]_vars

\* Session keys of the messages that arrive.
InitKeys ==
    /\ KeysInit /\ LifecycleIdle /\ ServerIdle /\ StatusIdle /\ SessionIdle /\ SchedIdle
    /\ PushIdle /\ HookIdle /\ ReplIdle /\ ChanIdle /\ RouterIdle /\ BeatIdle
NextKeys ==
    \/ (\E channel \in KeyChannels, sender \in SeqsUpTo(SenderChars, MaxSenderLen) :
           KeyMessage(channel, sender)) /\ UNCHANGED <<serverVars, lifeVars, statusVars, sessionVars, schedVars, pushVars, hookVars, replVars, chanVars, routerVars, beatVars>>
SpecKeys == InitKeys /\ [][NextKeys]_vars

====
